---------------------------- MODULE Spec2Model ----------------------------
(***************************************************************************)
(* A model of the owid/co2-data batch scripts (src/scripts).               *)
(*                                                                         *)
(* Every script is a straight-line main(); the model follows one script    *)
(* at a time through the positions of its main():                          *)
(*   script  the script that is running                                    *)
(*   pc      the position reached in its main()                            *)
(*   loc     its local dataframes and values (a record, one field each)    *)
(*   outdir  the files of the output directory, which outlive a run        *)
(*   memo    history variable: the first panel scripts.main exported and   *)
(*           the source tables of that run                                 *)
(*   nruns   number of runs started on the output directory                *)
(*                                                                         *)
(* A dataframe is a sequence of rows, a row a record of its columns.       *)
(* Floating point numbers are modelled by exact rationals together with    *)
(* NaN, +inf and -inf (rounding error is not modelled).                    *)
(*                                                                         *)
(* The scripts are checked in separate specifications, each starting at    *)
(* the point of main() where the lines it covers begin:                    *)
(*   SpecMerge      CDIAC/GCP precedence merge of the three merge scripts  *)
(*   SpecDerive     the joins and derived metrics of co2_emissions.main,   *)
(*                  country_co2_fuel_type.main and the CAIT script, each   *)
(*                  phase started from the frames its first line can hold  *)
(*   SpecPeaked     add_co2_peaked and the cumulative sums of              *)
(*                  co2_emissions.main on per-country series               *)
(*   SpecChain      co2_emissions.main from the region aggregates to the   *)
(*                  file it writes                                         *)
(*   SpecMain       runs of scripts.main.main and make_dataset.main, one   *)
(*                  after the other, on one output directory               *)
(*   SpecFetch      fetch_all_data_from_api of prepare_cait_datasets, and  *)
(*                  SpecFetchFair, the same with a loop that goes on       *)
(*   SpecCait       runs of prepare_cait_datasets.main on one directory    *)
(*   SpecSanity     the check of the latest year and the comparison of     *)
(*                  two datasets of prepare_cait_datasets_sanity_checks    *)
(***************************************************************************)
EXTENDS Integers, Sequences, FiniteSets, TLC

VARIABLES script, pc, loc, outdir, memo, nruns

vars == <<script, pc, loc, outdir, memo, nruns>>

----------------------------------------------------------------------------
(* Numbers: IEEE-like values over exact rationals.                         *)

Abs(i) == IF i < 0 THEN -i ELSE i

RECURSIVE GCD(_, _)
GCD(a, b) == IF b = 0 THEN a ELSE GCD(b, a % b)

NaN == [k |-> "nan", n |-> 0, d |-> 1]
PosInf == [k |-> "inf", n |-> 1, d |-> 1]
NegInf == [k |-> "inf", n |-> -1, d |-> 1]

\* The rational n/d (d # 0) in lowest terms with a positive denominator.
Rat(n, d) ==
    LET s == IF d < 0 THEN -1 ELSE 1
        g == GCD(Abs(n), Abs(d))
    IN  [k |-> "num", n |-> (s * n) \div g, d |-> (s * d) \div g]

Int2Num(i) == Rat(i, 1)

IsNum(x) == x.k = "num"
IsNull(x) == x.k = "nan"
IsInf(x) == x.k = "inf"
Sign(x) == IF x.n > 0 THEN 1 ELSE IF x.n < 0 THEN -1 ELSE 0

\* x + y of floats: NaN propagates, inf + (-inf) is NaN.
FAdd(x, y) ==
    IF IsNull(x) \/ IsNull(y) THEN NaN
    ELSE IF IsInf(x) /\ IsInf(y) THEN (IF x.n = y.n THEN x ELSE NaN)
    ELSE IF IsInf(x) THEN x
    ELSE IF IsInf(y) THEN y
    ELSE Rat(x.n * y.d + y.n * x.d, x.d * y.d)

FNeg(x) == IF IsNull(x) THEN NaN ELSE [x EXCEPT !.n = -x.n]

FSub(x, y) == FAdd(x, FNeg(y))

\* x * y of floats: NaN propagates, inf * 0 is NaN.
FMul(x, y) ==
    IF IsNull(x) \/ IsNull(y) THEN NaN
    ELSE IF IsInf(x) \/ IsInf(y)
         THEN (IF Sign(x) * Sign(y) = 0 THEN NaN
               ELSE IF Sign(x) * Sign(y) > 0 THEN PosInf ELSE NegInf)
    ELSE Rat(x.n * y.n, x.d * y.d)

\* x / y of float columns (numpy): x/0 is +-inf, 0/0 is NaN, x/inf is 0.
FDiv(x, y) ==
    IF IsNull(x) \/ IsNull(y) THEN NaN
    ELSE IF IsInf(x) THEN (IF IsInf(y) THEN NaN
                           ELSE IF Sign(x) * (IF Sign(y) < 0 THEN -1 ELSE 1) > 0
                                THEN PosInf ELSE NegInf)
    ELSE IF IsInf(y) THEN Int2Num(0)
    ELSE IF y.n = 0 THEN (IF x.n = 0 THEN NaN
                          ELSE IF x.n > 0 THEN PosInf ELSE NegInf)
    ELSE Rat(x.n * y.d, x.d * y.n)

----------------------------------------------------------------------------
(* Sequences and dataframes.                                               *)

Range(s) == {s[i] : i \in 1..Len(s)}

\* All sequences over S of length at most n.
SeqsUpTo(S, n) == UNION {[1..m -> S] : m \in 0..n}

RECURSIVE LexLess(_, _)
\* Lexicographic order of two integer tuples of the same length.
LexLess(a, b) ==
    IF Len(a) = 0 THEN FALSE
    ELSE IF Head(a) < Head(b) THEN TRUE
    ELSE IF Head(a) > Head(b) THEN FALSE
    ELSE LexLess(Tail(a), Tail(b))

RECURSIVE InsertKeyed(_, _)
\* Insert the pair p = <<key, row>> into a sorted sequence of such pairs,
\* behind every pair whose key is not greater (stable).
InsertKeyed(s, p) ==
    IF Len(s) = 0 THEN <<p>>
    ELSE IF LexLess(p[1], s[Len(s)][1])
         THEN Append(InsertKeyed(SubSeq(s, 1, Len(s) - 1), p), s[Len(s)])
         ELSE Append(s, p)

RECURSIVE SortKeyed(_)
SortKeyed(s) ==
    IF Len(s) = 0 THEN <<>>
    ELSE InsertKeyed(SortKeyed(SubSeq(s, 1, Len(s) - 1)), s[Len(s)])


\* The rows of df whose index is in idx, in df's order.
RECURSIVE PickRows(_, _)
PickRows(df, idx) ==
    IF Len(df) = 0 THEN <<>>
    ELSE LET rest == PickRows(SubSeq(df, 1, Len(df) - 1), idx)
         IN  IF Len(df) \in idx THEN Append(rest, df[Len(df)]) ELSE rest

\* Python's order of the country names used here (str comparison).
CountryOrder == <<"Asia", "Europe", "Testland", "USSR", "World">>

CountryRank(c) == CHOOSE i \in 1..Len(CountryOrder) : CountryOrder[i] = c

\* The sort key of a row on the columns cols (strings by rank, years as is).
KeyOf(row, cols) ==
    [i \in 1..Len(cols) |->
        IF cols[i] \in {"Country", "country"} THEN CountryRank(row[cols[i]])
        ELSE row[cols[i]]]

\* The frame left in the order it has.
SortValuesSkipped(df, cols) == df

\* DataFrame.sort_values(cols): with two or more columns pandas sorts with a
\* stable lexsort, so rows with equal keys keep their order.
SortValues(df, cols) ==
    LET keyed == [i \in 1..Len(df) |-> <<KeyOf(df[i], cols), df[i]>>]
        sorted == SortKeyed(keyed)
    IN  [i \in 1..Len(df) |-> sorted[i][2]]

\* DataFrame.groupby(cols).tail(1): the last row of every group, in the
\* frame's row order.
GroupByTail1(df, cols) ==
    PickRows(df, {i \in 1..Len(df) :
                    \A j \in (i + 1)..Len(df) :
                        KeyOf(df[j], cols) # KeyOf(df[i], cols)})

\* Series.sum() of the column col over the rows: NaN is skipped, the sum of
\* no value is 0.
RECURSIVE SumSkipNa(_, _)
SumSkipNa(df, col) ==
    IF Len(df) = 0 THEN Int2Num(0)
    ELSE LET rest == SumSkipNa(Tail(df), col)
         IN  IF IsNull(Head(df)[col]) THEN rest ELSE FAdd(Head(df)[col], rest)

SameKey(r, q, cols) == \A i \in 1..Len(cols) : r[cols[i]] = q[cols[i]]

\* DataFrame.groupby(keys, as_index=False).sum(): one row per key, sorted by
\* key, every other column summed.
GroupBySum(df, keys, valcols) ==
    LET firsts == PickRows(df, {i \in 1..Len(df) :
                     \A j \in 1..(i - 1) : ~SameKey(df[j], df[i], keys)})
        sorted == SortValues(firsts, keys)
        Total(r) == [f \in DOMAIN r |->
                        IF f \in valcols
                        THEN SumSkipNa(SelectSeq(df, LAMBDA q : SameKey(q, r, keys)), f)
                        ELSE r[f]]
    IN  [i \in 1..Len(sorted) |-> Total(sorted[i])]

\* df[cols] *= factor
MulCols(df, cols, factor) ==
    [i \in 1..Len(df) |->
        [f \in DOMAIN df[i] |->
            IF f \in cols THEN FMul(df[i][f], factor) ELSE df[i][f]]]

\* drop(columns=cols) that drops nothing.
DropColsNone(df, cols) == df

DropCols(df, cols) ==
    [i \in 1..Len(df) |-> [f \in DOMAIN df[i] \ cols |-> df[i][f]]]

\* df.loc[:, col] = v
SetCol(df, col, v) == [i \in 1..Len(df) |-> (col :> v) @@ df[i]]

\* The (Country, Year) keys of a frame.
KeysOf(df) == {<<df[i].Country, df[i].Year>> : i \in 1..Len(df)}

\* The rows of df with the key k.
RowsAt(df, k) == SelectSeq(df, LAMBDA r : <<r.Country, r.Year>> = k)

\* df.merge(names, on="Country").drop("Country").rename(CountryStandardised):
\* names maps a source's country name to the standardised name; rows of a
\* country it does not list are dropped by the inner merge.
Standardise(df, names) ==
    LET kept == SelectSeq(df, LAMBDA r : r.Country \in DOMAIN names)
    IN  [i \in 1..Len(kept) |-> [kept[i] EXCEPT !.Country = names[kept[i].Country]]]

\* pd.melt of a wide sheet (one row per Year, one column per country):
\* column by column, the sheet's years within each.
RECURSIVE Melt(_, _, _, _)
Melt(columns, years, cell, valname) ==
    IF Len(columns) = 0 THEN <<>>
    ELSE LET c == Head(columns)
         IN  [i \in 1..Len(years) |->
                 (valname :> cell[<<c, years[i]>>])
                 @@ [Year |-> years[i], Country |-> c]]
             \o Melt(Tail(columns), years, cell, valname)

\* The column values of the row r named in cols, as a tuple.
KeyVal(r, cols) == [i \in 1..Len(cols) |-> r[cols[i]]]

\* The keys of a frame on the columns cols.
KeysOn(df, cols) == {KeyVal(df[i], cols) : i \in 1..Len(df)}

\* The rows of df whose key on cols is k.
RowsOn(df, cols, k) == SelectSeq(df, LAMBDA r : KeyVal(r, cols) = k)

\* A row of nulls for the columns rcols.
NullRow(rcols) == [f \in rcols |-> NaN]

\* left.merge(right, on=on, how=how) for how in {"inner", "left"}: every
\* left row, in the left's order, once per right row with its key; a left
\* row without a match is dropped ("inner") or kept with nulls in the
\* right's columns rcols ("left").
RECURSIVE Merge(_, _, _, _, _)
Merge(left, right, on, rcols, how) ==
    IF Len(left) = 0 THEN <<>>
    ELSE LET r == Head(left)
             hits == SelectSeq(right, LAMBDA q : SameKey(q, r, on))
             rows == IF Len(hits) > 0
                     THEN [i \in 1..Len(hits) |-> r @@ hits[i]]
                     ELSE IF how = "left" THEN <<r @@ NullRow(rcols)>>
                     ELSE <<>>
         IN  rows \o Merge(Tail(left), right, on, rcols, how)

\* A set of integers as an ascending sequence.
RECURSIVE Ascending(_)
Ascending(S) ==
    IF S = {} THEN <<>>
    ELSE LET m == CHOOSE x \in S : \A y \in S : x <= y
         IN  <<m>> \o Ascending(S \ {m})

----------------------------------------------------------------------------
(* The CDIAC/GCP precedence merge: co2_emissions.main,                     *)
(* country_co2_fuel_type.main and global_co2_fuel_type.main.               *)

\* Rows a raw CDIAC file may hold at most, in the merge specification.
MaxRawRows == 2

UssrCutoff == 1958

\* The years of the merge specification, on both sides of the USSR cutoff.
MergeYears == {UssrCutoff, UssrCutoff + 1}

GCP_CO2_CONVERSION == Rat(3664, 1000)

cdiac_co2_conversion == Rat(3664, 1000000)

\* str.capitalize() on the nation names of the raw CDIAC files.
Capitalize(n) ==
    CASE n = "TESTLAND" -> "Testland"
      [] n = "TESTLAND ISLAND" -> "Testland island"
      [] n = "USSR" -> "Ussr"
      [] n = "ATLANTIS" -> "Atlantis"

\* df["Country"] = df["Country"].str.capitalize()
Capitalized(df) ==
    [i \in 1..Len(df) |-> [df[i] EXCEPT !.Country = Capitalize(df[i].Country)]]

CdiacNations == {"TESTLAND", "TESTLAND ISLAND", "USSR", "ATLANTIS"}

\* shared/cdiac_country_standardized.csv: two CDIAC names share a
\* standardised name, "Atlantis" has none.
country_cdiac ==
    ("Testland" :> "Testland") @@ ("Testland island" :> "Testland")
    @@ ("Ussr" :> "USSR")

\* shared/gcp_country_standardized.csv: two GCP names share a standardised
\* name.
country_gcp ==
    ("Testland" :> "Testland") @@ ("Soviet Union" :> "USSR") @@ ("USSR" :> "USSR")

\* The country columns of a GCP sheet, in sheet order.
GcpColumns == <<"Testland", "Soviet Union", "USSR">>

\* Raw CDIAC totals (thousand tonnes of carbon): 100 converts to 0.3664.
CdiacRawValues == {NaN, Int2Num(100)}

\* Raw GCP totals (million tonnes of carbon): 50/3.664 converts to 50.
GcpRawValues == {NaN, Rat(50000, 3664)}

\* A row of the columns Country, Year and "CO2 emissions".
Co2Row(c, y, v) == ("CO2 emissions" :> v) @@ [Country |-> c, Year |-> y]

\* The raw co2_cdiac.csv files of the merge specification.
CdiacRawFiles ==
    SeqsUpTo({Co2Row(n, y, v) : n \in CdiacNations, y \in MergeYears, v \in CdiacRawValues},
             MaxRawRows)

\* The "Territorial Emissions" sheets: a row per year of a set of years, a
\* cell per country column.
GcpSheets ==
    UNION {[years : {Ascending(Y)},
            cell : [Range(GcpColumns) \X Y -> GcpRawValues]] : Y \in SUBSET MergeYears}

\* co2_emissions.process_cdiac, from the renamed frame on.
process_cdiac(raw) ==
    LET capitalized == Capitalized(raw)
        converted == MulCols(capitalized, {"CO2 emissions"}, cdiac_co2_conversion)
        merged == Standardise(converted, country_cdiac)
    IN  GroupBySum(merged, <<"Country", "Year">>, {"CO2 emissions"})

\* co2_emissions.process_gcp
process_gcp(sheet) ==
    LET melted == Melt(GcpColumns, sheet.years, sheet.cell, "CO2 emissions")
        merged == Standardise(melted, country_gcp)
    IN  MulCols(merged, {"CO2 emissions"}, GCP_CO2_CONVERSION)

\* The rows of CDIAC and of GCP tagged with Source and Priority.
TagSource(df, source, priority) ==
    SetCol(SetCol(df, "Source", source), "Priority", priority)

\* concat, sort by (sortcols, Priority), last row of every group.
PrecedenceMergeHead(cdiac, gcp, sortcols, groupcols) ==
    LET both == TagSource(cdiac, "CDIAC", 0) \o TagSource(gcp, "GCP", 1)
        sorted == SortValues(both, sortcols \o <<"Priority">>)
    IN  PickRows(sorted, {i \in 1..Len(sorted) :
                    \A j \in 1..(i - 1) :
                        KeyOf(sorted[j], groupcols) # KeyOf(sorted[i], groupcols)})

PrecedenceMerge(cdiac, gcp, sortcols, groupcols) ==
    LET both == TagSource(cdiac, "CDIAC", 0) \o TagSource(gcp, "GCP", 1)
        sorted == SortValues(both, sortcols \o <<"Priority">>)
    IN  GroupByTail1(sorted, groupcols)

Idle == [idle |-> TRUE]

NoFiles == [f \in {} |-> <<>>]

NoMemo == [kind |-> "none"]

\* co2_emissions.main, line 144
Co2ProcessCdiac ==
    /\ pc = "idle"
    /\ \E raw \in CdiacRawFiles :
          loc' = [cdiac |-> process_cdiac(raw)]
    /\ script' = "co2_emissions"
    /\ pc' = "process_gcp"
    /\ UNCHANGED <<outdir, memo, nruns>>

\* co2_emissions.main, line 145
Co2ProcessGcp ==
    /\ script = "co2_emissions" /\ pc = "process_gcp"
    /\ \E sheet \in GcpSheets :
          loc' = [cdiac |-> loc.cdiac, gcp |-> process_gcp(sheet)]
    /\ pc' = "combine"
    /\ UNCHANGED <<script, outdir, memo, nruns>>

\* co2_emissions.main, lines 147-159
Co2Combine ==
    /\ script = "co2_emissions" /\ pc = "combine"
    /\ loc' = [cdiac |-> loc.cdiac, gcp |-> loc.gcp,
               combined |-> PrecedenceMerge(loc.cdiac, loc.gcp,
                                <<"Country", "Year">>, <<"Year", "Country">>)]
    /\ pc' = "combined"
    /\ UNCHANGED <<script, outdir, memo, nruns>>

\* The filter of line 167 with Year >= 1958 in place of Year > 1958.
TruncateFromCutoff(df) ==
    SelectSeq(df, LAMBDA r : ~(r.Country = "USSR" /\ r.Year >= UssrCutoff))

\* co2_emissions.main, line 167:
\* combined[-((combined["Country"] == "USSR") & (combined["Year"] > 1958))]
truncate_ussr(df) ==
    SelectSeq(df, LAMBDA r : ~(r.Country = "USSR" /\ r.Year > UssrCutoff))

\* co2_emissions.main, lines 162-167: drop Priority and Source, keep the
\* columns Country, Year and "CO2 emissions", cut the USSR rows.
Co2Truncate ==
    /\ script = "co2_emissions" /\ pc = "combined"
    /\ LET kept == [i \in 1..Len(loc.combined) |->
                      [f \in {"Country", "Year", "CO2 emissions"} |->
                          loc.combined[i][f]]]
       IN  loc' = [merged |-> loc.combined, combined |-> truncate_ussr(kept)]
    /\ pc' = "add_global_emissions"
    /\ UNCHANGED <<script, outdir, memo, nruns>>

FuelCols == {"Cement", "Coal", "Flaring", "Gas", "Oil"}

GlobalCols == FuelCols \cup {"Total emissions"}

\* The fuel cells of a raw CDIAC row (thousand tonnes of carbon).
CdiacFuelCells ==
    {[f \in FuelCols |-> NaN],
     ("Cement" :> Int2Num(100)) @@ ("Coal" :> Int2Num(200)) @@ ("Flaring" :> Int2Num(0))
        @@ ("Gas" :> Int2Num(300)) @@ ("Oil" :> Int2Num(400))}

\* The fuel cells GCP gives for a country and year, one per workbook.
GcpFuelCells ==
    {[f \in FuelCols |-> NaN],
     ("Cement" :> Int2Num(1)) @@ ("Coal" :> Int2Num(2)) @@ ("Flaring" :> Int2Num(0))
        @@ ("Gas" :> Int2Num(3)) @@ ("Oil" :> Int2Num(4))}

\* The raw co2_fuel_country_cdiac.csv files.
CdiacFuelFiles ==
    SeqsUpTo({[Country |-> n, Year |-> y] @@ p :
                 n \in CdiacNations, y \in MergeYears, p \in CdiacFuelCells},
             MaxRawRows)

\* The five *_by_country.xlsx workbooks, which share their years and country
\* columns: cell[c, y] holds the five fuels' values of column c in year y.
GcpFuelWorkbooks ==
    UNION {[years : {Ascending(Y)},
            cell : [Range(GcpColumns) \X Y -> GcpFuelCells]] : Y \in SUBSET MergeYears}

\* country_co2_fuel_type.main, lines 37-56
fuel_process_gcp(wb) ==
    LET Sheet(f) == Melt(GcpColumns, wb.years,
                         [c \in DOMAIN wb.cell |-> wb.cell[c][f]], f)
        on == <<"Year", "Country">>
        gas_oil == Merge(Sheet("Gas"), Sheet("Oil"), on, {"Oil"}, "inner")
        coal == Merge(gas_oil, Sheet("Coal"), on, {"Coal"}, "inner")
        flaring == Merge(coal, Sheet("Flaring"), on, {"Flaring"}, "inner")
        cement == Merge(flaring, Sheet("Cement"), on, {"Cement"}, "inner")
    IN  Standardise(cement, country_gcp)

\* country_co2_fuel_type.main, lines 80-98
fuel_process_cdiac(raw) ==
    LET merged == Standardise(Capitalized(raw), country_cdiac)
        summed == GroupBySum(merged, <<"Country", "Year">>, FuelCols)
    IN  MulCols(summed, FuelCols, cdiac_co2_conversion)

\* country_co2_fuel_type.main, lines 12-56
FuelProcessGcp ==
    /\ pc = "idle"
    /\ \E wb \in GcpFuelWorkbooks :
          loc' = [gcp |-> fuel_process_gcp(wb)]
    /\ script' = "country_co2_fuel_type"
    /\ pc' = "process_cdiac"
    /\ UNCHANGED <<outdir, memo, nruns>>

\* country_co2_fuel_type.main, lines 58-98
FuelProcessCdiac ==
    /\ script = "country_co2_fuel_type" /\ pc = "process_cdiac"
    /\ \E raw \in CdiacFuelFiles :
          loc' = [cdiac |-> fuel_process_cdiac(raw), gcp |-> loc.gcp]
    /\ pc' = "combine"
    /\ UNCHANGED <<script, outdir, memo, nruns>>

\* country_co2_fuel_type.main, lines 100-109
FuelCombine ==
    /\ script = "country_co2_fuel_type" /\ pc = "combine"
    /\ loc' = [cdiac |-> loc.cdiac, gcp |-> loc.gcp,
               combined |-> PrecedenceMerge(loc.cdiac, loc.gcp,
                                <<"Country", "Year">>, <<"Year", "Country">>)]
    /\ pc' = "combined"
    /\ UNCHANGED <<script, outdir, memo, nruns>>

\* The cells of a row of a global file (million tonnes of carbon).
GlobalCells(v) == [f \in GlobalCols |-> IF f = "Total emissions" THEN FMul(v, Int2Num(5)) ELSE v]

\* The global CDIAC file and the global GCP sheet, from the renamed frame on.
GlobalFiles(values) ==
    SeqsUpTo({[Year |-> y] @@ GlobalCells(v) : y \in MergeYears, v \in values},
             MaxRawRows)

co2_conversion == Rat(3664, 1000)

\* global_co2_fuel_type.main, lines 13-29
GlobalProcessCdiac ==
    /\ pc = "idle"
    /\ \E raw \in GlobalFiles({NaN, Int2Num(1)}) :
          loc' = [cdiac |-> MulCols(raw, GlobalCols, co2_conversion)]
    /\ script' = "global_co2_fuel_type"
    /\ pc' = "process_gcp"
    /\ UNCHANGED <<outdir, memo, nruns>>

\* global_co2_fuel_type.main, lines 31-41
GlobalProcessGcp ==
    /\ script = "global_co2_fuel_type" /\ pc = "process_gcp"
    /\ \E raw \in GlobalFiles({NaN, Int2Num(2)}) :
          loc' = [cdiac |-> loc.cdiac, gcp |-> MulCols(raw, GlobalCols, co2_conversion)]
    /\ pc' = "combine"
    /\ UNCHANGED <<script, outdir, memo, nruns>>

\* global_co2_fuel_type.main, lines 43-52
GlobalCombine ==
    /\ script = "global_co2_fuel_type" /\ pc = "combine"
    /\ loc' = [cdiac |-> loc.cdiac, gcp |-> loc.gcp,
               combined |-> PrecedenceMerge(loc.cdiac, loc.gcp, <<"Year">>, <<"Year">>)]
    /\ pc' = "combined"
    /\ UNCHANGED <<script, outdir, memo, nruns>>

InitMerge ==
    /\ script = "none" /\ pc = "idle" /\ loc = Idle
    /\ outdir = NoFiles /\ memo = NoMemo /\ nruns = 0

NextMerge ==
    \/ Co2ProcessCdiac \/ Co2ProcessGcp \/ Co2Combine \/ Co2Truncate
    \/ FuelProcessGcp \/ FuelProcessCdiac \/ FuelCombine
    \/ GlobalProcessCdiac \/ GlobalProcessGcp \/ GlobalCombine

SpecMerge == InitMerge /\ [][NextMerge]_vars

\* The key columns of the running script's precedence merge.
MergeOn == IF script = "global_co2_fuel_type" THEN <<"Year">> ELSE <<"Country", "Year">>

Untag(r) == [f \in DOMAIN r \ {"Source", "Priority"} |-> r[f]]

\* C1: after the precedence merge of CDIAC (Priority 0) and GCP (Priority 1)
\* the merged table holds exactly one row for every key of either input and
\* no other key; the row is a GCP row whenever GCP has the key, and the
\* CDIAC row, unchanged, when only CDIAC has it.
C1_PrecedenceMerge ==
    pc = "combined" =>
        LET on == MergeOn
            gcpKeys == KeysOn(loc.gcp, on)
        IN  /\ KeysOn(loc.combined, on) = KeysOn(loc.cdiac, on) \cup gcpKeys
            /\ \A k \in KeysOn(loc.combined, on) :
                  LET rows == RowsOn(loc.combined, on, k)
                  IN  /\ Len(rows) = 1
                      /\ IF k \in gcpKeys
                         THEN /\ rows[1].Source = "GCP"
                              /\ Untag(rows[1]) \in Range(RowsOn(loc.gcp, on, k))
                         ELSE /\ rows[1].Source = "CDIAC"
                              /\ Untag(rows[1]) \in Range(RowsOn(loc.cdiac, on, k))

\* The scenario of C1 in co2_emissions.main: CDIAC holds 0.3664 and GCP 50
\* for Testland in one year, the merged row holds 50, and another key that
\* only CDIAC has is merged too.
C1_Witness ==
    /\ script = "co2_emissions" /\ pc = "combined"
    /\ \E y \in MergeYears :
          /\ \E i \in 1..Len(loc.cdiac) :
                loc.cdiac[i] = Co2Row("Testland", y, Rat(3664, 10000))
          /\ \E i \in 1..Len(loc.gcp) :
                loc.gcp[i] = Co2Row("Testland", y, Int2Num(50))
          /\ \E i \in 1..Len(loc.combined) :
                Untag(loc.combined[i]) = Co2Row("Testland", y, Int2Num(50))
    /\ KeysOf(loc.cdiac) \ KeysOf(loc.gcp) # {}

\* C16: after the truncation of line 167 the merged table holds no row with
\* Country "USSR" and Year > 1958, and every USSR row with Year <= 1958 and
\* every row of another country is kept as it was, in the order it had.
C16_UssrTruncated ==
    pc = "add_global_emissions" =>
        /\ \A i \in 1..Len(loc.combined) :
              ~(loc.combined[i].Country = "USSR" /\ loc.combined[i].Year > 1958)
        /\ loc.combined
             = SelectSeq([i \in 1..Len(loc.merged) |-> Untag(loc.merged[i])],
                         LAMBDA r : r.Country # "USSR" \/ r.Year <= 1958)

\* The merged table held USSR rows of 1958 and of 1959 and a Testland row
\* of 1959; the 1959 row of the USSR is gone, the two others are kept.
C16_Witness ==
    /\ pc = "add_global_emissions"
    /\ {<<"USSR", 1958>>, <<"USSR", 1959>>} \subseteq KeysOf(loc.merged)
    /\ \E y \in MergeYears : <<"Testland", y>> \in KeysOf(loc.merged)
    /\ KeysOf(loc.combined) = KeysOf(loc.merged) \ {<<"USSR", 1959>>}

\* The values of the raw files of the running script, per source.
RawValuesOf(source) ==
    LET cells == IF source = "CDIAC" THEN CdiacFuelCells ELSE GcpFuelCells
        v == IF source = "CDIAC" THEN Int2Num(1) ELSE Int2Num(2)
    IN  CASE script = "co2_emissions" ->
                IF source = "CDIAC" THEN CdiacRawValues ELSE GcpRawValues
          [] script = "country_co2_fuel_type" ->
                {c[f] : c \in cells, f \in FuelCols}
          [] OTHER -> {GlobalCells(v)[f] : f \in GlobalCols}

\* The factor that converts a source's values to million tonnes of CO2:
\* 3.664/1000 for thousand tonnes of carbon (the CDIAC country files),
\* 3.664 for million tonnes of carbon.
ConversionOf(source) ==
    IF source = "CDIAC" /\ script # "global_co2_fuel_type"
    THEN Rat(3664, 1000000) ELSE Rat(3664, 1000)

\* v is null, or a converted raw value of the source, or the sum of the
\* converted values of up to MaxRawRows rows.
IsConverted(v, source) ==
    \/ IsNull(v)
    \/ \E x \in RawValuesOf(source) \ {NaN}, n \in 0..MaxRawRows :
          v = FMul(FMul(Int2Num(n), x), ConversionOf(source))

\* Every value of the frame is a converted value of the source.
AllConverted(df, source) ==
    \A i \in 1..Len(df) :
        \A f \in DOMAIN df[i] \ {"Country", "Year"} : IsConverted(df[i][f], source)

\* The tables that co2_emissions.main and global_co2_fuel_type.main merge
\* hold converted values only.
ConvertedElsewhere ==
    (pc = "combine" /\ script # "country_co2_fuel_type")
    => AllConverted(loc.cdiac, "CDIAC") /\ AllConverted(loc.gcp, "GCP")

\* C17: in every script that merges CDIAC with GCP, the values of both
\* sources are in million tonnes of CO2 (thousand tonnes of carbon x
\* 3.664/1000, million tonnes of carbon x 3.664) when the precedence merge
\* starts: no unconverted value takes part in the merge.
C17_ConvertedBeforeMerge ==
    pc = "combine"
    => AllConverted(loc.cdiac, "CDIAC") /\ AllConverted(loc.gcp, "GCP")

\* country_co2_fuel_type has merged a GCP row that holds the workbook's
\* values 2 (Coal) and 4 (Oil) as they were read.
C17_Witness ==
    /\ script = "country_co2_fuel_type" /\ pc = "combined"
    /\ \E i \in 1..Len(loc.combined) :
          /\ loc.combined[i].Source = "GCP"
          /\ loc.combined[i].Coal = Int2Num(2)
          /\ loc.combined[i].Oil = Int2Num(4)

----------------------------------------------------------------------------
(* Joins and derived metrics: co2_emissions.main from line 172 on,         *)
(* country_co2_fuel_type.main from line 122 on.                            *)

\* Rows the working frame holds at most where a phase of SpecDerive starts.
MaxFrameRows == 2

DeriveYears == {1990, 1991}

KeyCols == <<"Country", "Year">>

\* The frames over the given rows that a script can hold after its
\* precedence merge: one row per (Country, Year), sorted by Country, Year.
KeyedFrames(rows) ==
    {f \in SeqsUpTo(rows, MaxFrameRows) :
        \A i \in 1..Len(f) : \A j \in (i + 1)..Len(f) :
            LexLess(KeyOf(f[i], KeyCols), KeyOf(f[j], KeyCols))}

\* The keys of the tables a join reads: one the frames can hold, one no
\* frame holds.
SideKeys == <<<<"Testland", 1990>>, <<"Europe", 1990>>>>

\* A csv table with the columns Country, Year and col: a row with the value
\* v for every key of a set of keys, a table with a null cell, and a table
\* that lists one key twice.
SideTables(col, v) ==
    LET Row(k, x) == (col :> x) @@ [Country |-> k[1], Year |-> k[2]]
    IN  {<<>>, <<Row(SideKeys[1], v)>>, <<Row(SideKeys[2], v)>>,
         <<Row(SideKeys[1], v), Row(SideKeys[2], v)>>,
         <<Row(SideKeys[1], NaN)>>,
         <<Row(SideKeys[1], v), Row(SideKeys[1], FAdd(v, v))>>}

\* The frame of co2_emissions.main at line 172.
Co2Frames ==
    KeyedFrames({Co2Row(c, y, v) : c \in {"Testland", "World"}, y \in DeriveYears,
                                   v \in {NaN, Int2Num(100)}})

\* co2_emissions.add_population, add_gdp and add_energy: the left merge of
\* the table read from the file on (Country, Year).
add_table(dataframe, table, col) == Merge(dataframe, table, KeyCols, {col}, "left")

\* The locals after a join: the frame before it, the table joined, the
\* frame after it.
Joined(before, right, combined) ==
    [before |-> before, right |-> right, combined |-> combined]

\* co2_emissions.main, line 173
Co2AddPopulation ==
    /\ script = "co2_emissions" /\ pc = "add_population"
    /\ \E population \in SideTables("Population", Int2Num(2)) :
          loc' = Joined(loc.combined, population,
                        add_table(loc.combined, population, "Population"))
    /\ pc' = "add_gdp"
    /\ UNCHANGED <<script, outdir, memo, nruns>>

\* co2_emissions.main, line 174
Co2AddGdp ==
    /\ script = "co2_emissions" /\ pc = "add_gdp"
    /\ \E gdp \in SideTables("Total real GDP", Int2Num(5)) :
          loc' = Joined(loc.combined, gdp,
                        add_table(loc.combined, gdp, "Total real GDP"))
    /\ pc' = "add_energy"
    /\ UNCHANGED <<script, outdir, memo, nruns>>

EnergyCol == "Primary energy consumption (TWh) (BP & WB)"

\* co2_emissions.main, line 175
Co2AddEnergy ==
    /\ script = "co2_emissions" /\ pc = "add_energy"
    /\ \E energy \in SideTables(EnergyCol, Int2Num(7)) :
          loc' = Joined(loc.combined, energy,
                        add_table(loc.combined, energy, EnergyCol))
    /\ pc' = "get_continents"
    /\ UNCHANGED <<script, outdir, memo, nruns>>

\* The frame of country_co2_fuel_type.main at line 122: the merged fuel
\* rows and the world rows, which alone hold "Total emissions".
FuelFrames ==
    KeyedFrames({("Total emissions" :> (IF c = "World" THEN Int2Num(10) ELSE NaN))
                    @@ [Country |-> c, Year |-> y] @@ p :
                 c \in {"Testland", "World"}, y \in DeriveYears, p \in GcpFuelCells})

\* country_co2_fuel_type.main, lines 122-126: merge() without how= is an
\* inner merge.
FuelAddPopulation ==
    /\ script = "country_co2_fuel_type" /\ pc = "add_population"
    /\ \E population \in SideTables("Population", Int2Num(2)) :
          loc' = Joined(loc.combined, population,
                        Merge(loc.combined, population, KeyCols, {"Population"}, "inner"))
    /\ pc' = "per_capita"
    /\ UNCHANGED <<script, outdir, memo, nruns>>

\* country_co2_fuel_type.main, line 131, and
\* prepare_cait_datasets.collect_data_for_each_gas, line 293:
\* metric / population * 1000000
per_capita_scaled(metric, population) ==
    FMul(FDiv(metric, population), Int2Num(1000000))

\* co2_emissions.main, lines 231-238: metric / population.mul(1000000)
per_capita(metric, population) ==
    FDiv(metric, FMul(population, Int2Num(1000000)))

\* The locals after a step that rewrites the frame: the frame before it and
\* the frame after it.
Stepped(before, combined) == [before |-> before, combined |-> combined]

\* country_co2_fuel_type.main, lines 128-134
FuelPerCapita ==
    /\ script = "country_co2_fuel_type" /\ pc = "per_capita"
    /\ LET added == [i \in 1..Len(loc.combined) |->
                       [f \in {c \o " (per capita)" : c \in FuelCols} |->
                           LET col == CHOOSE c \in FuelCols : c \o " (per capita)" = f
                           IN  per_capita_scaled(loc.combined[i][col],
                                                 loc.combined[i].Population)]
                       @@ loc.combined[i]]
       IN  loc' = Stepped(loc.combined,
                          DropCols(added, {"Population", "Total emissions"}))
    /\ pc' = "to_csv"
    /\ UNCHANGED <<script, outdir, memo, nruns>>

\* The frame of co2_emissions.main at line 193, with the columns the lines
\* 193-241 read.
ConsumptionFrames ==
    KeyedFrames({("Population" :> p) @@ Co2Row(c, y, v) :
                 c \in {"Testland", "World"}, y \in DeriveYears,
                 v \in {NaN, Int2Num(0), Int2Num(100)}, p \in {NaN, Int2Num(2)}})

\* The country columns of the "Consumption Emissions" sheet.
ConsumptionColumns == <<"Testland", "Soviet Union">>

\* The "Consumption Emissions" sheets (million tonnes of carbon): 150/3.664
\* converts to 150.
ConsumptionSheets ==
    UNION {[years : {Ascending(Y)},
            cell : [Range(ConsumptionColumns) \X Y -> {NaN, Rat(150000, 3664)}]] :
           Y \in SUBSET DeriveYears}

\* co2_emissions.main, lines 225-228: traded / co2.mul(100)
share_emissions_traded(traded, co2) == FDiv(traded, FMul(co2, Int2Num(100)))

\* co2_emissions.main, lines 193-228
Co2Consumption ==
    /\ script = "co2_emissions" /\ pc = "consumption"
    /\ \E sheet \in ConsumptionSheets :
          LET melted == Melt(ConsumptionColumns, sheet.years, sheet.cell,
                             "Consumption emissions")
              consumption == MulCols(Standardise(melted, country_gcp),
                                     {"Consumption emissions"}, GCP_CO2_CONVERSION)
              merged == Merge(loc.combined, consumption, KeyCols,
                              {"Consumption emissions"}, "left")
              Traded(r) == FSub(r["Consumption emissions"], r["CO2 emissions"])
          IN  loc' = Stepped(loc.combined,
                        [i \in 1..Len(merged) |->
                            ("Traded emissions" :> Traded(merged[i]))
                            @@ ("Share emissions traded" :>
                                   share_emissions_traded(Traded(merged[i]),
                                                          merged[i]["CO2 emissions"]))
                            @@ merged[i]])
    /\ pc' = "per_capita"
    /\ UNCHANGED <<script, outdir, memo, nruns>>

\* co2_emissions.main, lines 230-241
Co2PerCapita ==
    /\ script = "co2_emissions" /\ pc = "per_capita"
    /\ LET added == [i \in 1..Len(loc.combined) |->
                       ("Per capita emissions" :>
                           per_capita(loc.combined[i]["CO2 emissions"],
                                      loc.combined[i].Population))
                       @@ ("Per capita consumption emissions" :>
                           per_capita(loc.combined[i]["Consumption emissions"],
                                      loc.combined[i].Population))
                       @@ loc.combined[i]]
       IN  loc' = Stepped(loc.combined, DropCols(added, {"Population"}))
    /\ pc' = "global_share"
    /\ UNCHANGED <<script, outdir, memo, nruns>>

\* The bound on the length of a country's series at add_co2_peaked.
MaxSeriesLen == 5

\* x is ordered strictly before y by sort_values: ascending, nulls last.
FLess(x, y) == ~IsNull(x) /\ (IsNull(y) \/ Sign(FSub(x, y)) < 0)

\* A stable sort of df by the float column col (rows of equal value keep
\* their order, rows with a null value come last).
RECURSIVE SortByValue(_, _)
SortByValue(df, col) ==
    IF Len(df) = 0 THEN <<>>
    ELSE LET rest == SortByValue(SubSeq(df, 1, Len(df) - 1), col)
             r == df[Len(df)]
             n == Cardinality({i \in 1..Len(rest) :
                                  ~FLess(r[col], rest[i][col])})
         IN  SubSeq(rest, 1, n) \o <<r>> \o SubSeq(rest, n + 1, Len(rest))

\* add_co2_peaked, lines 132-140: the frame is sorted by Country and then
\* by "CO2 emissions" (a stable lexsort), the last row of every country
\* gives its peak_year, which is joined on Country and compared with Year.
add_co2_peaked(dataframe) ==
    LET sorted == SortValues(SortByValue(dataframe, "CO2 emissions"),
                             <<"Country">>)
        tail == GroupByTail1(sorted, <<"Country">>)
        peak_emissions == [i \in 1..Len(tail) |->
                              [Country |-> tail[i].Country,
                               peak_year |-> tail[i].Year]]
        merged == Merge(dataframe, peak_emissions, <<"Country">>,
                        {"peak_year"}, "left")
    IN  [i \in 1..Len(merged) |->
            LET r == merged[i]
            IN  ("CO2_peaked" :>
                    IF r.Year < r.peak_year THEN "False"
                    ELSE IF r.Year = r.peak_year THEN "Highest year"
                    ELSE "True")
                @@ [f \in DOMAIN r \ {"peak_year"} |-> r[f]]]

\* co2_emissions.main, line 258
Co2Peaked ==
    /\ script = "co2_emissions" /\ pc = "co2_peaked"
    /\ loc' = Stepped(loc.combined, add_co2_peaked(loc.combined))
    /\ pc' = "cumulative"
    /\ UNCHANGED <<script, outdir, memo, nruns>>

\* The frame of co2_emissions.main at line 260, with the columns the lines
\* 260-270 read; "Global emissions" was merged on Year, so it is the same
\* in all rows of a year.
CumulativeFrames ==
    UNION {KeyedFrames({("Global emissions" :> g[y]) @@ Co2Row(c, y, v) :
                        c \in {"Testland", "World"}, y \in DeriveYears,
                        v \in {NaN, Int2Num(100)}}) :
           g \in [DeriveYears -> {NaN, Int2Num(0), Int2Num(100)}]}

\* cumsum over the rows of the frame up to row i, without the grouping by
\* Country.
CumSumUngrouped(df, col, i) ==
    IF IsNull(df[i][col]) THEN NaN
    ELSE SumSkipNa(SubSeq(df, 1, i), col)

\* Series.groupby("Country")[col].cumsum() at row i of df: the sum of the
\* group's values up to row i, nulls skipped; null where the row's value is
\* null.
CumSum(df, col, i) ==
    IF IsNull(df[i][col]) THEN NaN
    ELSE SumSkipNa(SelectSeq(SubSeq(df, 1, i),
                             LAMBDA r : r.Country = df[i].Country), col)

\* co2_emissions.main, lines 267-270: cumulative / global_cumulative.mul(100)
share_of_global_cumulative(cumulative, global_cumulative) ==
    FDiv(cumulative, FMul(global_cumulative, Int2Num(100)))

\* co2_emissions.main, lines 260-270
Co2Cumulative ==
    /\ script = "co2_emissions" /\ pc = "cumulative"
    /\ LET sorted == SortValues(loc.combined, KeyCols)
           Cum(i) == CumSum(sorted, "CO2 emissions", i)
           GlobalCum(i) == CumSum(sorted, "Global emissions", i)
       IN  loc' = Stepped(loc.combined,
                     [i \in 1..Len(sorted) |->
                         ("Cumulative" :> Cum(i))
                         @@ ("Global cumulative" :> GlobalCum(i))
                         @@ ("Share of global cumulative emissions" :>
                                share_of_global_cumulative(Cum(i), GlobalCum(i)))
                         @@ sorted[i]])
    /\ pc' = "co2_per_gdp"
    /\ UNCHANGED <<script, outdir, memo, nruns>>

\* The gases of GASES_AND_FILES and the sectors of COLUMNS_PER_CAPITA that
\* the CAIT rows of this model use.
CaitGases == {"CO2", "CH4"}

CaitSectors == {"Energy", "Waste"}

SUFFIX_FOR_PER_CAPITA_VARIABLES == " (per capita)"

\* ghg_data as combine_ghg_and_population returns it: one row per country,
\* year, gas and sector reported, the population of the country and year
\* (never null) in every row.
CaitFrames ==
    SeqsUpTo({[Country |-> "Testland", Year |-> y, Population |-> Int2Num(2),
               Gas |-> g, Sector |-> s, Value |-> v] :
              y \in DeriveYears, g \in CaitGases, s \in CaitSectors,
              v \in {NaN, Int2Num(10), Int2Num(30)}},
             MaxFrameRows)

\* prepare_cait_datasets.collect_data_for_each_gas, lines 284-294, for one
\* gas: pivot_table drops null values, takes the mean of the values of a
\* (Country, Year, Population) index and sector, and sorts by the index
\* (the population is a function of country and year).
gas_data(ghg_data, gas) ==
    LET sel == SelectSeq(ghg_data, LAMBDA r : r.Gas = gas /\ ~IsNull(r.Value))
        index == <<"Country", "Year", "Population">>
        sectors == {sel[i].Sector : i \in 1..Len(sel)}
        firsts == PickRows(sel, {i \in 1..Len(sel) :
                     \A j \in 1..(i - 1) : ~SameKey(sel[j], sel[i], index)})
        idx == SortValues(firsts, KeyCols)
        Mean(k, s) ==
            LET rows == SelectSeq(sel, LAMBDA r : SameKey(r, k, index) /\ r.Sector = s)
            IN  IF Len(rows) = 0 THEN NaN
                ELSE FDiv(SumSkipNa(rows, "Value"), Int2Num(Len(rows)))
        pivot == [i \in 1..Len(idx) |->
                    [f \in Range(index) \cup sectors |->
                        IF f \in sectors THEN Mean(idx[i], f) ELSE idx[i][f]]]
        added == [i \in 1..Len(pivot) |->
                    [f \in {s \o SUFFIX_FOR_PER_CAPITA_VARIABLES : s \in sectors} |->
                        LET col == CHOOSE s \in sectors :
                                      s \o SUFFIX_FOR_PER_CAPITA_VARIABLES = f
                        IN  per_capita_scaled(pivot[i][col], pivot[i].Population)]
                    @@ pivot[i]]
    IN  DropCols(added, {"Population"})

\* prepare_cait_datasets.collect_data_for_each_gas
CaitCollect ==
    /\ script = "prepare_cait_datasets" /\ pc = "collect_data_for_each_gas"
    /\ loc' = [ghg_data |-> loc.ghg_data,
               data_for_gases |-> [g \in CaitGases |-> gas_data(loc.ghg_data, g)]]
    /\ pc' = "save_data_for_each_gas"
    /\ UNCHANGED <<script, outdir, memo, nruns>>

\* A script at the line where a phase starts, with its working frame.
\* shared/continents.csv: the Region of the countries it lists.
continents_csv == ("Testland" :> "Europe") @@ ("USSR" :> "Europe")

\* The numeric columns of the frame of line 178 other than Year.
NumericCols == {"CO2 emissions", "Population", "Total real GDP", EnergyCol}

\* get_continents, lines 37-50: the inner merge with continents.csv keeps
\* the rows of the countries listed, groupby(["Region", "Year"]).sum() adds
\* up every numeric column (nulls skipped, the sum of no value is 0) in one
\* row per Region and Year, sorted; Region is renamed to Country and every
\* 0 is replaced by null. (The model names the region "Country" before
\* the grouping.)
get_continents(dataframe) ==
    LET sums == GroupBySum(Standardise(dataframe, continents_csv), KeyCols,
                           NumericCols)
    IN  [i \in 1..Len(sums) |->
            [f \in DOMAIN sums[i] |->
                IF f \in NumericCols /\ sums[i][f] = Int2Num(0)
                THEN NaN ELSE sums[i][f]]]

\* co2/regions_fill.csv: rows of regions with the columns Country, Year
\* and "CO2 emissions"; pd.concat leaves the other columns null.
RegionFills ==
    {<<>>, <<Co2Row("Europe", 1990, Int2Num(50)) @@ [f \in NumericCols |-> NaN]>>}

\* co2_emissions.main, lines 178-182
Co2Regions ==
    /\ script = "co2_emissions" /\ pc = "get_continents"
    /\ \E region_fill \in RegionFills :
          loc' = [before |-> loc.combined,
                  continents |-> get_continents(loc.combined),
                  combined |-> loc.combined \o get_continents(loc.combined)
                               \o region_fill]
    /\ pc' = "growth"
    /\ UNCHANGED <<script, outdir, memo, nruns>>

\* The frame of co2_emissions.main at line 178, with rows of two countries
\* of one region and of a country that continents.csv does not list.
RegionFrames ==
    KeyedFrames({("Population" :> p) @@ ("Total real GDP" :> Int2Num(2))
                 @@ (EnergyCol :> NaN) @@ Co2Row(c, y, v) :
                 c \in {"Testland", "USSR", "World"}, y \in DeriveYears,
                 v \in {NaN, Int2Num(0), Int2Num(100)}, p \in {NaN, Int2Num(2)}})

\* The CAIT rows as prepare_ghg_data returns them, for one country
\* code and one gas.
CaitRawFrames ==
    SeqsUpTo({[iso_3 |-> "TST", Year |-> y, Gas |-> "CO2", Sector |-> s,
               Value |-> v] :
              y \in DeriveYears, s \in CaitSectors, v \in {NaN, Int2Num(10)}},
             MaxFrameRows)

\* The population table: country name and population per code and year.
CaitPopulations ==
    LET Row(y, p) == [iso_3 |-> "TST", Year |-> y, Country |-> "Testland",
                      Population |-> p]
    IN  {<<>>, <<Row(1990, Int2Num(2))>>, <<Row(1990, NaN), Row(1991, Int2Num(2))>>,
         <<Row(1990, Int2Num(2)), Row(1991, Int2Num(2))>>}

\* combine_ghg_and_population, lines 261-273: the left merge on (iso_3,
\* year) and the assertion that no row lacks a country or a population (a
\* row without a population row lacks both); ok is FALSE when it fails.
combine_ghg_and_population(ghg_data, population) ==
    LET merged == Merge(ghg_data, population, <<"iso_3", "Year">>,
                        {"Country", "Population"}, "left")
        missing == {i \in 1..Len(merged) : IsNull(merged[i].Population)}
    IN  [ok |-> missing = {}, ghg_data |-> DropCols(merged, {"iso_3"})]

\* prepare_cait_datasets.main, line 397
CaitCombine ==
    /\ script = "prepare_cait_datasets" /\ pc = "combine_ghg_and_population"
    /\ \E population \in CaitPopulations :
          LET r == combine_ghg_and_population(loc.ghg_data, population)
          IN  IF r.ok
              THEN /\ pc' = "collect_data_for_each_gas"
                   /\ loc' = [ghg_data |-> r.ghg_data]
              ELSE /\ pc' = "aborted"
                   /\ loc' = [ghg_data |-> loc.ghg_data, population |-> population]
    /\ UNCHANGED <<script, outdir, memo, nruns>>

InitDerive ==
    /\ \/ script = "co2_emissions" /\ pc = "add_population"
          /\ \E f \in Co2Frames : loc = [combined |-> f]
       \/ script = "co2_emissions" /\ pc = "get_continents"
          /\ \E f \in RegionFrames : loc = [combined |-> f]
       \/ script = "co2_emissions" /\ pc = "consumption"
          /\ \E f \in ConsumptionFrames : loc = [combined |-> f]
       \/ script = "co2_emissions" /\ pc = "cumulative"
          /\ \E f \in CumulativeFrames : loc = [combined |-> f]
       \/ script = "country_co2_fuel_type" /\ pc = "add_population"
          /\ \E f \in FuelFrames : loc = [combined |-> f]
       \/ script = "prepare_cait_datasets" /\ pc = "collect_data_for_each_gas"
          /\ \E f \in CaitFrames : loc = [ghg_data |-> f]
       \/ script = "prepare_cait_datasets" /\ pc = "combine_ghg_and_population"
          /\ \E f \in CaitRawFrames : loc = [ghg_data |-> f]
    /\ outdir = NoFiles /\ memo = NoMemo /\ nruns = 0

NextDerive ==
    \/ Co2AddPopulation \/ Co2AddGdp \/ Co2AddEnergy \/ Co2Regions
    \/ Co2Consumption \/ Co2PerCapita \/ Co2Cumulative
    \/ FuelAddPopulation \/ FuelPerCapita
    \/ CaitCombine \/ CaitCollect

SpecDerive == InitDerive /\ [][NextDerive]_vars

\* The frame of co2_emissions.main at line 258, sorted by Country and Year
\* (line 185): one country's series over consecutive years, or the rows of
\* two countries; "Global emissions" is read by lines 260-270.
PeakFrames ==
    {[i \in 1..Len(s) |->
         ("Global emissions" :> Int2Num(100))
         @@ Co2Row("Testland", 1999 + i, s[i])] :
     s \in SeqsUpTo({NaN, Int2Num(5), Int2Num(10), Int2Num(15), Int2Num(20)},
                    MaxSeriesLen)}
    \cup CumulativeFrames

\* The bound on the rows of a frame given to lines 260-270 in any order.
MaxCumRows == 3

\* Frames for the sort of line 260: rows of two countries in any order,
\* the value of a Testland row null or 1, 2, 3 for 1990, 1991, 1992.
UnsortedFrames ==
    SeqsUpTo(UNION {{("Global emissions" :> Int2Num(100))
                     @@ Co2Row("Testland", y, v) :
                     v \in {NaN, Int2Num(y - 1989)}} : y \in 1990..1992}
             \cup {("Global emissions" :> Int2Num(100))
                   @@ Co2Row("World", y, Int2Num(7)) : y \in DeriveYears},
             MaxCumRows)

InitPeaked ==
    /\ \/ script = "co2_emissions" /\ pc = "co2_peaked"
          /\ \E f \in PeakFrames : loc = [combined |-> f]
       \/ script = "co2_emissions" /\ pc = "cumulative"
          /\ \E f \in UnsortedFrames : loc = [combined |-> f]
    /\ outdir = NoFiles /\ memo = NoMemo /\ nruns = 0

NextPeaked == Co2Peaked \/ Co2Cumulative

\* Lines 258-270 of co2_emissions.main on the frames of line 258.
SpecPeaked == InitPeaked /\ [][NextPeaked]_vars

\* The columns a step added to the rows of the frame.
NewCols(row) == DOMAIN row \ (IF Len(loc.before) = 0 THEN {} ELSE DOMAIN loc.before[1])

\* C3: joining population, GDP or primary-energy data never removes an
\* emissions observation and never adds a key: the frame has the same set of
\* (Country, Year) keys before and after the join, and a key that the joined
\* table lacks has null in the new column.
C3_JoinKeepsKeys ==
    "right" \in DOMAIN loc =>
        /\ KeysOf(loc.combined) = KeysOf(loc.before)
        /\ \A i \in 1..Len(loc.combined) :
              <<loc.combined[i].Country, loc.combined[i].Year>> \notin KeysOf(loc.right)
                  => \A f \in NewCols(loc.combined[i]) \ Range(KeyCols) :
                        IsNull(loc.combined[i][f])

\* C8: in co2_emissions.main every row with non-null Consumption emissions
\* and non-null, non-zero CO2 emissions has Traded emissions = Consumption
\* emissions - CO2 emissions and Share emissions traded = Traded emissions /
\* CO2 emissions x 100.
C8_TradedShare ==
    (script = "co2_emissions" /\ pc = "per_capita") =>
        \A i \in 1..Len(loc.combined) :
            LET r == loc.combined[i]
                co2 == r["CO2 emissions"]
                cons == r["Consumption emissions"]
            IN  (~IsNull(cons) /\ ~IsNull(co2) /\ co2 # Int2Num(0)) =>
                    /\ r["Traded emissions"] = FSub(cons, co2)
                    /\ r["Share emissions traded"]
                          = FMul(FDiv(r["Traded emissions"], co2), Int2Num(100))

\* C9: in co2_emissions.main every row with non-null Cumulative and
\* non-null, non-zero Global cumulative has Share of global cumulative
\* emissions = Cumulative / Global cumulative x 100.
C9_ShareOfGlobalCumulative ==
    (script = "co2_emissions" /\ pc = "co2_per_gdp") =>
        \A i \in 1..Len(loc.combined) :
            LET r == loc.combined[i]
                cum == r["Cumulative"]
                glob == r["Global cumulative"]
            IN  (~IsNull(cum) /\ ~IsNull(glob) /\ glob # Int2Num(0)) =>
                    r["Share of global cumulative emissions"]
                        = FMul(FDiv(cum, glob), Int2Num(100))

Million == Int2Num(1000000)

\* The per-capita columns of co2_emissions.main are metric / (Population x
\* 1,000,000), when Over is TRUE, or metric / Population x 1,000,000.
Co2PerCapitaIs(Over) ==
    (script = "co2_emissions" /\ pc = "global_share") =>
        \A i \in 1..Len(loc.combined) :
            LET r == loc.combined[i]
                pop == loc.before[i].Population
                Want(m) == IF Over THEN FDiv(m, FMul(pop, Million))
                           ELSE FMul(FDiv(m, pop), Million)
            IN  /\ r["Per capita emissions"] = Want(r["CO2 emissions"])
                /\ r["Per capita consumption emissions"]
                      = Want(r["Consumption emissions"])

\* The same for the "<fuel> (per capita)" columns of
\* country_co2_fuel_type.main.
FuelPerCapitaIs(Over) ==
    (script = "country_co2_fuel_type" /\ pc = "to_csv") =>
        \A i \in 1..Len(loc.combined) : \A c \in FuelCols :
            LET r == loc.combined[i]
                pop == loc.before[i].Population
            IN  r[c \o " (per capita)"]
                    = IF Over THEN FDiv(r[c], FMul(pop, Million))
                      ELSE FMul(FDiv(r[c], pop), Million)

\* The same for the "<sector> (per capita)" columns of
\* prepare_cait_datasets.collect_data_for_each_gas.
CaitPerCapitaIs(Over) ==
    (script = "prepare_cait_datasets" /\ pc = "save_data_for_each_gas") =>
        \A g \in CaitGases :
            LET df == loc.data_for_gases[g]
            IN  \A i \in 1..Len(df) : \A s \in CaitSectors \cap DOMAIN df[i] :
                    \A j \in 1..Len(loc.ghg_data) :
                        SameKey(loc.ghg_data[j], df[i], KeyCols) =>
                            LET pop == loc.ghg_data[j].Population
                            IN  df[i][s \o SUFFIX_FOR_PER_CAPITA_VARIABLES]
                                  = IF Over THEN FDiv(df[i][s], FMul(pop, Million))
                                    ELSE FMul(FDiv(df[i][s], pop), Million)

\* What the three scripts compute: co2_emissions.main divides by
\* Population x 1,000,000, country_co2_fuel_type.main and
\* prepare_cait_datasets.collect_data_for_each_gas divide by Population and
\* multiply by 1,000,000.
PerCapitaByScript ==
    /\ Co2PerCapitaIs(TRUE)
    /\ FuelPerCapitaIs(FALSE)
    /\ CaitPerCapitaIs(FALSE)

\* C10: every per-capita column of the three scripts is computed as metric /
\* (Population x 1,000,000).
C10_PerCapitaUniform ==
    /\ Co2PerCapitaIs(TRUE)
    /\ FuelPerCapitaIs(TRUE)
    /\ CaitPerCapitaIs(TRUE)

\* Coal 2 with Population 2 in country_co2_fuel_type.main gives a per-capita
\* value of 1,000,000.
C10_Witness ==
    /\ script = "country_co2_fuel_type" /\ pc = "to_csv"
    /\ \E i \in 1..Len(loc.combined) :
          /\ loc.before[i].Population = Int2Num(2)
          /\ loc.combined[i].Coal = Int2Num(2)
          /\ loc.combined[i]["Coal (per capita)"] = Million

----------------------------------------------------------------------------
(* scripts.main.main and make_dataset.main, which write the same files of  *)
(* one output directory.                                                   *)

\* Runs started on the output directory, at most.
MaxRuns == 3

\* A string cell of a frame (a null cell is NaN).
Str(s) == [k |-> "str", s |-> s]

\* The variables of scripts/input/variable_ids.py the model keeps, one per
\* get_* function, by the name their metadata gives them.
Co2Name == "Annual CO2 emissions"
GhgName == "Total including LUCF"
Ch4Name == "Total including LUCF (CH4)"
N2oName == "Total including LUCF (N2O)"
EnergyName == "Primary energy consumption (TWh)"
PopName == "Population (historical estimates)"
GdpName == "GDP"

\* input/owid_name2column_name.json
owid_name2column_name ==
    ("ISO code" :> "iso_code") @@ ("Country" :> "country") @@ ("Year" :> "year")
    @@ (Co2Name :> "co2") @@ (GhgName :> "total_ghg") @@ (Ch4Name :> "methane")
    @@ (N2oName :> "nitrous_oxide") @@ (EnergyName :> "primary_energy_consumption")
    @@ (PopName :> "population") @@ (GdpName :> "gdp")

\* input/iso3166_1_alpha_3_codes.csv; dict.get gives None for other names.
get_iso_codes(country) == IF country = "Testland" THEN Str("TST") ELSE NaN

\* A frame with its column order: the columns and the rows.
Frame(columns, rows) == [columns |-> columns, rows |-> rows]

\* The table of a variable as get_owid_variable(to_frame=True) returns it.
Obs(c, y, v) == [Country |-> c, Year |-> y, value |-> v]

\* df.rename(columns={"value": name})
Named(table, name) ==
    [i \in 1..Len(table) |->
        (name :> table[i].value) @@ [Country |-> table[i].Country, Year |-> table[i].Year]]

\* Only the right side is checked (validate="m:1").
ValidateManyToOne(left, right, on) ==
    \A i, j \in 1..Len(right) : SameKey(right[i], right[j], on) => i = j

\* validate="1:1": neither side lists a key twice.
validate_1_1(left, right, on) ==
    /\ \A i, j \in 1..Len(left) : SameKey(left[i], left[j], on) => i = j
    /\ \A i, j \in 1..Len(right) : SameKey(right[i], right[j], on) => i = j

\* left.merge(right, on=on, how="outer"): the rows of the left merge, then
\* a row for every right row without a left row, sorted by the keys.
OuterMerge(left, right, on, lcols, rcols) ==
    LET only == SelectSeq(right, LAMBDA q :
                    \A i \in 1..Len(left) : ~SameKey(left[i], q, on))
    IN  SortValues(Merge(left, right, on, rcols, "left")
                   \o [i \in 1..Len(only) |-> only[i] @@ NullRow(lcols)], on)

\* numpy.round(x, 3): to the nearest thousandth, a tie to the even one.
Round3(x) ==
    IF ~IsNum(x) THEN x
    ELSE LET q == (2000 * x.n + x.d) \div (2 * x.d)
             tie == (2000 * x.n + x.d) % (2 * x.d) = 0
         IN  Rat(IF tie /\ q % 2 = 1 THEN q - 1 ELSE q, 1000)

\* The columns of a row other than the given ones hold a value.
HasData(row, keycols) == \E f \in DOMAIN row \ keycols : ~IsNull(row[f])

\* The display unit of the total GHG variable that lines 205-208 of main.py
\* name (the source writes the 2 as a subscript).
GhgUnit == "tonnes CO2e"

\* The source tables and metadata one run of scripts.main.main retrieves:
\* the table of each variable, the unit of the CO2 variable, the display
\* unit of the total GHG variable, and the description and the source name
\* of the population variable.
Sources(co2, ghg, ch4, n2o, energy, pop, gdp, unit, description) ==
    [co2 |-> co2, ghg |-> ghg, ch4 |-> ch4, n2o |-> n2o, energy |-> energy,
     pop |-> pop, gdp |-> gdp, unit |-> unit, ghg_unit |-> GhgUnit,
     description |-> description, source_name |-> Str("Our World in Data")]

\* One observation of Testland in 1990, with the value v.
One(v) == <<Obs("Testland", 1990, v)>>

\* Sources that pass every check unless the merged emissions hold a row of
\* nulls: CO2 in tonnes (100400 tonnes are 0.1004 million tonnes), the
\* other emissions for the same key, for another key or null.
GoodSources ==
    {Sources(co2, ghg, <<>>, One(NaN), One(Int2Num(7)), pop, One(Int2Num(5)),
             "tonnes", Str("Population by country")) :
        co2 \in {One(Int2Num(100400)), One(NaN)},
        ghg \in {One(Int2Num(5)), One(NaN), <<Obs("World", 1990, Int2Num(5))>>,
                 <<Obs("World", 1990, Int2Num(5)), Obs("Europe", 1991, Int2Num(5))>>},
        pop \in {One(Int2Num(2)), <<Obs("Europe", 1990, Int2Num(2))>>}}

\* The same key twice.
Twice == <<Obs("Testland", 1990, Int2Num(1)), Obs("Testland", 1990, Int2Num(1))>>

TableNames == {"co2", "ghg", "ch4", "n2o", "energy", "pop", "gdp"}

\* Sources with one defect: a table that lists a key twice, an unexpected
\* unit, or a variable without a description.
BadSources ==
    LET good == Sources(One(Int2Num(100400)), One(Int2Num(5)), <<>>, One(NaN),
                        One(Int2Num(7)), One(Int2Num(2)), One(Int2Num(5)),
                        "tonnes", Str("Population by country"))
    IN  {[good EXCEPT ![t] = Twice] : t \in TableNames}
        \cup {[good EXCEPT !.unit = "kilotonnes"], [good EXCEPT !.description = NaN]}

\* Sources whose total GHG variable declares another display unit.
OddUnitSources ==
    {[Sources(One(Int2Num(100400)), One(Int2Num(5)), <<>>, One(NaN),
              One(Int2Num(7)), One(Int2Num(2)), One(Int2Num(5)),
              "tonnes", Str("Population by country"))
        EXCEPT !.ghg_unit = "kilotonnes CO2e"]}

\* Sources that pass every check but whose population variable has an
\* empty description or an empty source name, and sources whose population
\* variable has no source name.
GapSources ==
    LET good == Sources(One(Int2Num(100400)), One(Int2Num(5)), <<>>, One(NaN),
                        One(Int2Num(7)), One(Int2Num(2)), One(Int2Num(5)),
                        "tonnes", Str("Population by country"))
    IN  {[good EXCEPT !.description = Str("")],
         [good EXCEPT !.source_name = Str("")],
         [good EXCEPT !.source_name = NaN]}

\* get_co2_emissions, lines 142-153: the units it accepts.
UnitOk(unit) ==
    unit \in {"tonnes", "tonnes per capita", "%", "kilograms per $PPP",
              "kilograms per kilowatt-hour"}

\* get_co2_emissions for one variable: tonnes become million tonnes.
get_co2_emissions(table, unit) ==
    Named([i \in 1..Len(table) |->
              [table[i] EXCEPT !.value = IF unit = "tonnes" THEN FDiv(@, Million) ELSE @]],
          Co2Name)

\* The names of the codebook rows, in the order of lines 41-50.
CodebookNames ==
    <<"ISO code", "Country", "Year", Co2Name, GhgName, Ch4Name, N2oName,
      PopName, GdpName, EnergyName>>

\* load_and_merge_datasets, lines 41-54; the description of the total GHG
\* variable is rewritten to million tonnes when its display unit is the
\* one of lines 205-208 (get_total_ghg_emissions makes no other use of the
\* unit).
main_codebook(src) ==
    [i \in 1..Len(CodebookNames) |->
        [column |-> owid_name2column_name[CodebookNames[i]],
         description |-> IF CodebookNames[i] = PopName THEN src.description
                         ELSE IF CodebookNames[i] = GhgName /\ src.ghg_unit = GhgUnit
                         THEN Str("million tonnes")
                         ELSE Str(CodebookNames[i]),
         source |-> IF CodebookNames[i] = PopName THEN src.source_name
                    ELSE Str("Our World in Data")]]

\* load_and_merge_datasets: ok is FALSE when an assertion or a validation
\* fails, else df and codebook are the values returned.
load_and_merge_datasets(src) ==
    LET on == <<"Year", "Country">>
        df_co2 == get_co2_emissions(src.co2, src.unit)
        df_ghg == Named(src.ghg, GhgName)
        df_ch4 == Named(src.ch4, Ch4Name)
        df_n2o == Named(src.n2o, N2oName)
        df_energy == Named(src.energy, EnergyName)
        df_pop == Named(src.pop, PopName)
        df_gdp == Named(src.gdp, GdpName)
        codebook == main_codebook(src)
        m1 == OuterMerge(df_co2, df_ghg, on, {Co2Name}, {GhgName})
        m2 == OuterMerge(m1, df_ch4, on, {Co2Name, GhgName}, {Ch4Name})
        m3 == OuterMerge(m2, df_n2o, on, {Co2Name, GhgName, Ch4Name}, {N2oName})
        j1 == Merge(m3, df_energy, on, {EnergyName}, "left")
        j2 == Merge(j1, df_pop, on, {PopName}, "left")
        j3 == Merge(j2, df_gdp, on, {GdpName}, "left")
        rounded == [i \in 1..Len(j3) |->
                      ("ISO code" :> get_iso_codes(j3[i].Country))
                      @@ [f \in DOMAIN j3[i] |->
                             IF f \in {"Country", "Year"} THEN j3[i][f]
                             ELSE Round3(j3[i][f])]]
        ok == /\ UnitOk(src.unit)
              /\ \A i \in 1..Len(codebook) :
                    ~IsNull(codebook[i].description) /\ ~IsNull(codebook[i].source)
              /\ validate_1_1(df_co2, df_ghg, on)
              /\ validate_1_1(m1, df_ch4, on)
              /\ validate_1_1(m2, df_n2o, on)
              /\ \A i \in 1..Len(m3) : HasData(m3[i], {"Country", "Year"})
              /\ validate_1_1(m3, df_energy, on)
              /\ validate_1_1(j1, df_pop, on)
              /\ validate_1_1(j2, df_gdp, on)
    IN  IF ok
        THEN [ok |-> TRUE,
              df |-> Frame(<<"Year", "Country", Co2Name, GhgName, Ch4Name, N2oName,
                             EnergyName, PopName, GdpName, "ISO code">>,
                           SortValues(rounded, KeyCols)),
              codebook |-> codebook]
        ELSE [ok |-> FALSE]

\* The files of the output directory.
DataCsv == "owid-co2-data.csv"
CodebookCsv == "owid-co2-codebook.csv"

\* The directory after a file is written.
Written(dir, file, content) == (file :> content) @@ dir

\* A run can start when no run is under way.
CanStart == pc \in {"idle", "aborted", "done"} /\ nruns < MaxRuns

\* main.main, line 25
MainLoadAndMerge ==
    /\ CanStart
    /\ \E src \in GoodSources \cup BadSources \cup OddUnitSources \cup GapSources :
          LET r == load_and_merge_datasets(src)
          IN  IF r.ok
              THEN /\ pc' = "rename_columns"
                   /\ loc' = [src |-> src, outdir0 |-> outdir,
                              df |-> r.df, codebook |-> r.codebook]
              ELSE /\ pc' = "aborted"
                   /\ loc' = [src |-> src, outdir0 |-> outdir]
    /\ script' = "main"
    /\ nruns' = nruns + 1
    /\ UNCHANGED <<outdir, memo>>

\* df.rename(errors="raise", columns=mapping): ok is FALSE when the frame
\* lacks a name of the mapping.
rename_columns(df, mapping) ==
    IF DOMAIN mapping \subseteq Range(df.columns)
    THEN [ok |-> TRUE,
          df |-> Frame([i \in 1..Len(df.columns) |-> mapping[df.columns[i]]],
                       [i \in 1..Len(df.rows) |->
                           [c \in {mapping[f] : f \in DOMAIN df.rows[i]} |->
                               df.rows[i][CHOOSE f \in DOMAIN df.rows[i] : mapping[f] = c]]])]
    ELSE [ok |-> FALSE]

\* main.main, line 26: rename_columns
MainRenameColumns ==
    /\ script = "main" /\ pc = "rename_columns"
    /\ LET r == rename_columns(loc.df, owid_name2column_name)
       IN  IF r.ok THEN /\ pc' = "subset_columns"
                        /\ loc' = [loc EXCEPT !.df = r.df]
           ELSE /\ pc' = "aborted"
                /\ loc' = [src |-> loc.src, outdir0 |-> loc.outdir0]
    /\ UNCHANGED <<script, outdir, memo, nruns>>

\* The "column" column of a codebook.
ColumnList(codebook) == [i \in 1..Len(codebook) |-> codebook[i].column]

\* The frame is returned whatever the codebook file holds.
SubsetUnchecked(df, dir) == [ok |-> TRUE, df |-> df]

\* subset_columns: reads the codebook file of the output directory; ok is
\* FALSE when the file does not exist or names a column the frame lacks.
subset_columns(df, dir) ==
    IF CodebookCsv \in DOMAIN dir
       /\ Range(ColumnList(dir[CodebookCsv])) \subseteq Range(df.columns)
    THEN LET columns == ColumnList(dir[CodebookCsv])
         IN  [ok |-> TRUE,
              df |-> Frame(columns, [i \in 1..Len(df.rows) |->
                                        [c \in Range(columns) |-> df.rows[i][c]]])]
    ELSE [ok |-> FALSE]

\* main.main, line 26: subset_columns
MainSubsetColumns ==
    /\ script = "main" /\ pc = "subset_columns"
    /\ LET r == subset_columns(loc.df, outdir)
       IN  IF r.ok THEN /\ pc' = "reorder_columns"
                        /\ loc' = [loc EXCEPT !.df = r.df]
           ELSE /\ pc' = "aborted"
                /\ loc' = [src |-> loc.src, outdir0 |-> loc.outdir0]
    /\ UNCHANGED <<script, outdir, memo, nruns>>

\* reorder_columns: set_index(index columns).reset_index(); ok is FALSE
\* when the frame lacks an index column.
reorder_columns(df) ==
    LET index == <<"iso_code", "country", "year">>
    IN  IF Range(index) \subseteq Range(df.columns)
        THEN [ok |-> TRUE,
              df |-> Frame(index \o SelectSeq(df.columns, LAMBDA c : c \notin Range(index)),
                           df.rows)]
        ELSE [ok |-> FALSE]

\* main.main, line 26: reorder_columns
MainReorderColumns ==
    /\ script = "main" /\ pc = "reorder_columns"
    /\ LET r == reorder_columns(loc.df)
       IN  IF r.ok THEN /\ pc' = "export"
                        /\ loc' = [loc EXCEPT !.df = r.df]
           ELSE /\ pc' = "aborted"
                /\ loc' = [src |-> loc.src, outdir0 |-> loc.outdir0]
    /\ UNCHANGED <<script, outdir, memo, nruns>>

\* df_to_json and make_dataset.save_data_to_json: per country the iso_code,
\* when it is not null, and the list of its rows, each without its nulls.
df_to_json(rows) ==
    [c \in {rows[i].country : i \in 1..Len(rows)} |->
        LET own == SelectSeq(rows, LAMBDA r : r.country = c)
        IN  [static |-> [f \in {g \in {"iso_code"} : ~IsNull(own[1][g])} |-> own[1][f]],
             data |-> [i \in 1..Len(own) |->
                         [f \in {g \in DOMAIN own[i] \ {"country", "iso_code"} :
                                    g = "year" \/ ~IsNull(own[i][g])} |-> own[i][f]]]]]

\* main.main, line 26: export
MainExport ==
    /\ script = "main" /\ pc = "export"
    /\ LET df == Frame(loc.df.columns, SortValues(loc.df.rows, <<"country", "year">>))
       IN  /\ outdir' = Written(Written(Written(outdir,
                            DataCsv, df),
                            "owid-co2-data.xlsx", df),
                            "owid-co2-data.json", df_to_json(df.rows))
           /\ memo' = IF memo = NoMemo
                      THEN [kind |-> "main", src |-> loc.src, panel |-> df]
                      ELSE memo
    /\ pc' = "codebook_to_csv"
    /\ UNCHANGED <<script, loc, nruns>>

\* main.main, line 27
MainWriteCodebook ==
    /\ script = "main" /\ pc = "codebook_to_csv"
    /\ outdir' = Written(outdir, CodebookCsv, loc.codebook)
    /\ pc' = "done"
    /\ UNCHANGED <<script, loc, memo, nruns>>

\* Python's order of the column names (str comparison).
ColumnOrder ==
    <<"co2", "co2_per_capita", "country", "gdp", "iso_code", "methane", "nitrous_oxide", "population",
      "primary_energy_consumption", "total_ghg", "year">>

\* sorted(columns)
Sorted(columns) == SelectSeq(ColumnOrder, LAMBDA c : c \in columns)

\* The indicator columns of the tables of the catalog: all the columns that
\* scripts.main exports, some of them, a column it does not export, or a
\* table without gdp.
CatalogColumns ==
    {{"iso_code", "population", "gdp", "co2", "total_ghg", "methane", "nitrous_oxide",
      "primary_energy_consumption"},
     {"iso_code", "population", "gdp", "co2"},
     {"iso_code", "population", "gdp", "co2", "co2_per_capita"},
     {"iso_code", "population", "co2"}}

\* The tables load_latest_dataset may return, indexed by country and year:
\* two years of Testland, the later one first.
CatalogTables ==
    {[y \in {1, 2} |->
        [c \in cols \cup {"country", "year"} |->
            CASE c = "country" -> "Testland"
              [] c = "year" -> 1992 - y
              [] c = "iso_code" -> Str("TST")
              [] c = "co2" -> IF y = 1 THEN Int2Num(3) ELSE NaN
              [] OTHER -> Int2Num(y)]] : cols \in CatalogColumns}

first_columns == <<"country", "year", "iso_code", "population", "gdp">>

\* make_dataset.prepare_data: ok is FALSE when the table lacks one of the
\* first columns.
prepare_data(tb) ==
    LET columns == IF Len(tb) = 0 THEN {} ELSE DOMAIN tb[1]
    IN  IF Range(first_columns) \subseteq columns
        THEN [ok |-> TRUE,
              tb |-> Frame(first_columns \o Sorted(columns \ Range(first_columns)),
                           SortValues(tb, <<"country", "year">>))]
        ELSE [ok |-> FALSE]

\* An origin of a variable's metadata; "" stands for a field that is None
\* or empty, date_published is the list of the parts that "-" separates.
Origin(attribution, producer, title, date_published, url_main) ==
    [attribution |-> attribution, producer |-> producer, title |-> title,
     title_snapshot |-> "", date_published |-> date_published,
     url_main |-> url_main]

\* The metadata of a variable of the table: title_public and title are a
\* string cell or None (NaN), description_short is "" when None or empty.
VariableMeta(title_public, title, description_short, origins) ==
    [title_public |-> title_public, title |-> title,
     description_short |-> description_short, origins |-> origins]

GcpOrigin ==
    Origin("", "Global Carbon Project", "Global Carbon Budget",
           <<"2023", "12", "05">>, "https://globalcarbonbudget.org/")

\* The metadata the catalog may give the co2 column: complete, with a
\* public title only, with the same origin twice and an attributed one,
\* without origins, without a title, or with an empty title.
Co2Metadata ==
    {VariableMeta(NaN, Str("Annual CO2 emissions"), "Annual total emissions.",
                  <<GcpOrigin>>),
     VariableMeta(Str("CO2"), NaN, "", <<GcpOrigin>>),
     VariableMeta(NaN, Str("Annual CO2 emissions"), "",
                  <<GcpOrigin, GcpOrigin,
                    Origin("Global Carbon Budget (2023)", "", "", <<"2023">>, "")>>),
     VariableMeta(NaN, Str("Annual CO2 emissions"), "", <<>>),
     VariableMeta(NaN, NaN, "Annual total emissions.", <<GcpOrigin>>),
     VariableMeta(NaN, Str(""), "", <<GcpOrigin>>)}

\* prepare_codebook, lines 137-150: the name of the source of an origin.
source_name(origin) ==
    LET name == IF origin.attribution # "" THEN origin.attribution
                ELSE origin.producer \o " - "
                     \o (IF origin.title # "" THEN origin.title
                         ELSE origin.title_snapshot)
                     \o " (" \o origin.date_published[1] \o ")"
    IN  IF origin.url_main # "" THEN name \o " [" \o origin.url_main \o "]"
        ELSE name

\* prepare_codebook, lines 135-154: the names of the sources of the
\* origins, each once, in the order of their first occurrence, joined by
\* "; ".
RECURSIVE sources_combined(_)
sources_combined(origins) ==
    IF Len(origins) = 0 THEN ""
    ELSE LET n == Len(origins)
             init == SubSeq(origins, 1, n - 1)
             name == source_name(origins[n])
         IN  IF \E i \in 1..(n - 1) : source_name(origins[i]) = name
             THEN sources_combined(init)
             ELSE IF sources_combined(init) = "" THEN name
             ELSE sources_combined(init) \o "; " \o name

\* make_dataset.prepare_codebook: a row per column of the table, sorted by
\* column name, the first columns moved to the front. The metadata of
\* country and year are set by lines 84-93, co2 is the metadata the catalog
\* gives the co2 column and every other column has a title and one origin.
\* ok is FALSE when line 121 adds a title that is None to the description
\* (TypeError). No string of the model holds a details-on-demand reference,
\* so remove_details_on_demand returns its argument.
prepare_codebook(tb, co2) ==
    LET sorted == Sorted(Range(tb.columns))
        order == first_columns \o SelectSeq(sorted, LAMBDA c : c \notin Range(first_columns))
        max_year == CHOOSE y \in {tb.rows[i].year : i \in 1..Len(tb.rows)} :
                        \A i \in 1..Len(tb.rows) : tb.rows[i].year <= y
        regions_origin == <<Origin("", "Our World in Data", "Regions",
                                   <<ToString(max_year)>>, "")>>
        metadata(column) ==
            CASE column = "country" ->
                     VariableMeta(NaN, Str("Country"), "Geographic location.",
                                  regions_origin)
              [] column = "year" ->
                     VariableMeta(NaN, Str("Year"), "Year of observation.",
                                  regions_origin)
              [] column = "co2" -> co2
              [] OTHER -> VariableMeta(NaN, Str(column), "", <<GcpOrigin>>)
        title(column) ==
            IF ~IsNull(metadata(column).title_public)
            THEN metadata(column).title_public
            ELSE metadata(column).title
        description(column) ==
            IF metadata(column).description_short # ""
            THEN Str(title(column).s \o " - " \o metadata(column).description_short)
            ELSE title(column)
    IN  IF \E i \in 1..Len(order) : IsNull(title(order[i]))
        THEN [ok |-> FALSE]
        ELSE [ok |-> TRUE,
              codebook |->
                 [i \in 1..Len(order) |->
                     [column |-> order[i], description |-> description(order[i]),
                      unit |-> Str(""),
                      source |-> Str(sources_combined(metadata(order[i]).origins))]]]

\* make_dataset.main, line 190
MakeLoad ==
    /\ CanStart
    /\ \E tb \in CatalogTables, co2 \in Co2Metadata :
          loc' = [tb |-> tb, co2 |-> co2, outdir0 |-> outdir]
    /\ script' = "make_dataset"
    /\ pc' = "prepare_data"
    /\ nruns' = nruns + 1
    /\ UNCHANGED <<outdir, memo>>

\* make_dataset.main, lines 196-204
MakePrepare ==
    /\ script = "make_dataset" /\ pc = "prepare_data"
    /\ LET r == prepare_data(loc.tb)
           c == prepare_codebook(r.tb, loc.co2)
       IN  IF r.ok /\ c.ok /\ ColumnList(c.codebook) = r.tb.columns
           THEN /\ pc' = "save"
                /\ loc' = [tb |-> r.tb, co2 |-> loc.co2, codebook |-> c.codebook,
                           outdir0 |-> loc.outdir0]
           ELSE /\ pc' = "aborted"
                /\ loc' = [tb |-> loc.tb, co2 |-> loc.co2, outdir0 |-> loc.outdir0]
    /\ UNCHANGED <<script, outdir, memo, nruns>>

\* make_dataset.main, lines 211-219
MakeSave ==
    /\ script = "make_dataset" /\ pc = "save"
    /\ outdir' = Written(Written(Written(Written(outdir,
                     DataCsv, loc.tb),
                     "owid-co2-data.xlsx", [Data |-> loc.tb, Metadata |-> loc.codebook]),
                     "owid-co2-data.json", df_to_json(loc.tb.rows)),
                     CodebookCsv, loc.codebook)
    /\ pc' = "done"
    /\ UNCHANGED <<script, loc, memo, nruns>>

\* An empty output directory and no run under way.
InitMain ==
    /\ script = "none" /\ pc = "idle" /\ loc = Idle
    /\ outdir = NoFiles /\ memo = NoMemo /\ nruns = 0

NextMain ==
    \/ MainLoadAndMerge \/ MainRenameColumns \/ MainSubsetColumns
    \/ MainReorderColumns \/ MainExport \/ MainWriteCodebook
    \/ MakeLoad \/ MakePrepare \/ MakeSave

SpecMain == InitMain /\ [][NextMain]_vars

\* The table lists a (Country, Year) key twice.
HasDuplicate(table) ==
    \E i, j \in 1..Len(table) : i # j /\ SameKey(table[i], table[j], KeyCols)

\* C2: whenever a table that load_and_merge_datasets joins with
\* validate="1:1" (CO2, total GHG, CH4, N2O, energy, population, GDP) lists
\* a (Year, Country) key twice, the run of scripts.main aborts and the
\* output directory is as the run found it: no panel is built from a
\* duplicated key.
C2_DuplicateKeyAborts ==
    (script = "main" /\ \E t \in TableNames : HasDuplicate(loc.src[t])) =>
        /\ pc = "aborted"
        /\ outdir = loc.outdir0

\* A run of scripts.main that found a codebook and data files in the
\* output directory, retrieved a population table with a duplicated key and
\* aborted.
C2_Witness ==
    /\ script = "main" /\ pc = "aborted"
    /\ HasDuplicate(loc.src.pop)
    /\ \A t \in TableNames \ {"pop"} : ~HasDuplicate(loc.src[t])
    /\ {CodebookCsv, DataCsv} \subseteq DOMAIN outdir

\* The rows of the panel file hold a value in a column other than country,
\* year and iso_code.
PanelRowsHaveData ==
    \A i \in 1..Len(outdir[DataCsv].rows) :
        HasData(outdir[DataCsv].rows[i], {"country", "year", "iso_code"})

\* C4: every row of the final panel written by scripts.main has at least
\* one non-null value among the columns other than country, year and
\* iso_code.
C4_NoAllNullRow ==
    (script = "main" /\ pc \in {"codebook_to_csv", "done"}) => PanelRowsHaveData

\* C5: when a run of scripts.main.main or make_dataset.main is done, the
\* "column" list of the codebook file equals, in the same order, the column
\* list of the panel file.
C5_CodebookMatchesPanel ==
    pc = "done" => ColumnList(outdir[CodebookCsv]) = outdir[DataCsv].columns

\* C6: two runs of scripts.main.main given identical source tables write
\* identical panels, whatever files an earlier run left in the output
\* directory (memo is the first run that exported a panel).
C6_PanelFunctionOfSources ==
    (script = "main" /\ pc \in {"codebook_to_csv", "done"}
     /\ memo.kind = "main" /\ memo.src = loc.src) =>
        outdir[DataCsv] = memo.panel

\* The checks of a run of scripts.main.main pass: the expected unit, no
\* duplicated key, no emissions key with nulls only, no null codebook cell,
\* and a codebook file, found in the directory, whose columns the panel has.
MainChecksPass ==
    LET src == loc.src
        emissions == src.co2 \o src.ghg \o src.ch4 \o src.n2o
        old == loc.outdir0
    IN  /\ src.unit \in {"tonnes", "tonnes per capita", "%", "kilograms per $PPP",
                         "kilograms per kilowatt-hour"}
        /\ \A t \in TableNames : ~HasDuplicate(src[t])
        /\ \A i \in 1..Len(emissions) :
              \E j \in 1..Len(emissions) :
                  /\ SameKey(emissions[i], emissions[j], KeyCols)
                  /\ ~IsNull(emissions[j].value)
        /\ ~IsNull(src.description) /\ ~IsNull(src.source_name)
        /\ CodebookCsv \in DOMAIN old
        /\ \A i \in 1..Len(old[CodebookCsv]) :
              \E n \in DOMAIN owid_name2column_name :
                  owid_name2column_name[n] = old[CodebookCsv][i].column

\* C7: a run of scripts.main.main or make_dataset.main that aborts leaves
\* the output directory as it found it, and a run changes the directory
\* only when all its checks have passed.
C7_NoWriteOnFailure ==
    script \in {"main", "make_dataset"} =>
        /\ pc = "aborted" => outdir = loc.outdir0
        /\ outdir # loc.outdir0 =>
              IF script = "main" THEN MainChecksPass
              ELSE /\ Range(first_columns) \subseteq Range(loc.tb.columns)
                   /\ ColumnList(loc.codebook) = loc.tb.columns

\* A run of scripts.main.main whose sources pass the checks of
\* load_and_merge_datasets aborts in subset_columns, on a codebook file that
\* names a column the panel lacks, and the files of the directory are as
\* the earlier run wrote them.
C7_Witness ==
    /\ script = "main" /\ pc = "aborted"
    /\ loc.src \in GoodSources
    /\ load_and_merge_datasets(loc.src).ok
    /\ CodebookCsv \in DOMAIN outdir
    /\ \E i \in 1..Len(outdir[CodebookCsv]) :
          outdir[CodebookCsv][i].column = "co2_per_capita"
    /\ outdir = loc.outdir0

----------------------------------------------------------------------------
(* add_co2_peaked on a series with a tied maximum.                         *)

\* One country with CO2 emissions 10, 20, 15, 20, 5 in 2000..2004.
TiedSeries ==
    LET v == <<10, 20, 15, 20, 5>>
    IN  [i \in 1..5 |-> ("Global emissions" :> Int2Num(100))
                        @@ Co2Row("Testland", 1999 + i,
                                  Int2Num(v[i]))]

PeakedLabels == [i \in 1..Len(loc.combined) |-> loc.combined[i]["CO2_peaked"]]

\* C11: add_co2_peaked on the series 10, 20, 15, 20, 5 of 2000..2004 takes
\* 2001, the first year of the maximum, as the peak: 2000 is labelled
\* "False", 2001 "Highest year" and 2002, 2003, 2004 "True".
C11_PeakIsFirstMaximum ==
    (pc = "cumulative" /\ "before" \in DOMAIN loc /\ loc.before = TiedSeries)
    => PeakedLabels = <<"False", "Highest year", "True", "True", "True">>

\* The labels add_co2_peaked gives that series: the peak is 2003, the last
\* year of the maximum.
C11_Witness ==
    /\ pc = "cumulative" /\ "before" \in DOMAIN loc /\ loc.before = TiedSeries
    /\ PeakedLabels = <<"False", "False", "False", "Highest year", "True">>

----------------------------------------------------------------------------
(* The cumulative sums of lines 260-264.                                   *)

\* The rows of df of country c with a Year of at most y.
RowsUpTo(df, c, y) == SelectSeq(df, LAMBDA q : q.Country = c /\ q.Year <= y)

----------------------------------------------------------------------------
(* co2_emissions.main from the region aggregates of line 178 to the file   *)
(* written at line 314, on the rows of one country.                        *)

\* The frame at line 178, with the columns joined by lines 173-175; a null
\* or zero stands in each of the columns the ratios divide by.
ChainFrames ==
    KeyedFrames({("Population" :> s[1]) @@ ("Total real GDP" :> s[2])
                 @@ (EnergyCol :> s[3]) @@ Co2Row("Testland", y, v) :
                 y \in DeriveYears, v \in {NaN, Int2Num(0), Int2Num(100)},
                 s \in {<<Int2Num(2), Int2Num(2), Int2Num(7)>>,
                        <<NaN, Int2Num(2), Int2Num(7)>>,
                        <<Int2Num(2), NaN, NaN>>,
                        <<Int2Num(0), Int2Num(0), Int2Num(0)>>}})

\* The rows before row i, of any country.
RowsBefore(df, i) == 1..(i - 1)

\* groupby("Country"): the rows of the group of row i that come before it.
GroupBefore(df, i) == {j \in 1..(i - 1) : df[j].Country = df[i].Country}

\* co2_emissions.main, lines 185-191: sort by Country and Year, then
\* groupby("Country") pct_change() * 100 and diff(). pct_change divides
\* the value by the previous value of the group and subtracts 1; with
\* pad set (the default fill_method of the pandas releases before 3.0)
\* nulls are first filled with the last value of the group before them.
Co2Growth ==
    /\ script = "co2_emissions" /\ pc = "growth"
    /\ \E pad \in BOOLEAN :
          LET sorted == SortValues(loc.combined, KeyCols)
              Group(i) == GroupBefore(sorted, i) \cup {i}
              Last(S) == CHOOSE j \in S : \A k \in S : k <= j
              Filled(i) ==
                  LET known == {j \in Group(i) :
                                   ~IsNull(sorted[j]["CO2 emissions"])}
                  IN  IF ~pad THEN sorted[i]["CO2 emissions"]
                      ELSE IF known = {} THEN NaN
                      ELSE sorted[Last(known)]["CO2 emissions"]
              Growth(i) ==
                  LET before == Group(i) \ {i}
                  IN  IF before = {}
                      THEN [pct |-> NaN, abs |-> NaN]
                      ELSE [pct |-> FMul(FSub(FDiv(Filled(i), Filled(Last(before))),
                                              Int2Num(1)), Int2Num(100)),
                            abs |-> FSub(sorted[i]["CO2 emissions"],
                                         sorted[Last(before)]["CO2 emissions"])]
          IN  loc' = Stepped(loc.combined,
                        [i \in 1..Len(sorted) |->
                            ("Annual CO2 growth (%)" :> Growth(i).pct)
                            @@ ("Annual CO2 growth (abs)" :> Growth(i).abs)
                            @@ sorted[i]])
    /\ pc' = "consumption"
    /\ UNCHANGED <<script, outdir, memo, nruns>>

\* co2_emissions.main, lines 243-255: global_co2.csv holds one row per
\* Year, its "Total emissions" (here the same in every year) is joined on
\* Year as "Global emissions".
Co2GlobalShare ==
    /\ script = "co2_emissions" /\ pc = "global_share"
    /\ \E g \in {NaN, Int2Num(0), Int2Num(100)} :
          LET years == Ascending(DeriveYears)
              global_co2 == [i \in 1..Len(years) |->
                                ("Global emissions" :> g)
                                @@ [Year |-> years[i]]]
              merged == Merge(loc.combined, global_co2, <<"Year">>,
                              {"Global emissions"}, "left")
          IN  loc' = Stepped(loc.combined,
                        [i \in 1..Len(merged) |->
                            ("Share of global emissions" :>
                                FMul(FDiv(merged[i]["CO2 emissions"],
                                          merged[i]["Global emissions"]),
                                     Int2Num(100)))
                            @@ merged[i]])
    /\ pc' = "co2_peaked"
    /\ UNCHANGED <<script, outdir, memo, nruns>>

\* co2_emissions.main, lines 272-281: metric / gdp.mul(1000000000)
Co2PerGdp ==
    /\ script = "co2_emissions" /\ pc = "co2_per_gdp"
    /\ LET PerGdp(r, col) ==
               FDiv(r[col], FMul(r["Total real GDP"], Int2Num(1000000000)))
           added == [i \in 1..Len(loc.combined) |->
                       ("CO2 per GDP (kg per $PPP)" :>
                           PerGdp(loc.combined[i], "CO2 emissions"))
                       @@ ("Consumption-based CO2 per GDP (kg per $PPP)" :>
                           PerGdp(loc.combined[i], "Consumption emissions"))
                       @@ loc.combined[i]]
       IN  loc' = Stepped(loc.combined, DropCols(added, {"Total real GDP"}))
    /\ pc' = "co2_per_energy"
    /\ UNCHANGED <<script, outdir, memo, nruns>>

\* co2_emissions.main, lines 283-291
Co2PerEnergy ==
    /\ script = "co2_emissions" /\ pc = "co2_per_energy"
    /\ LET added == [i \in 1..Len(loc.combined) |->
                       ("CO2 per unit energy (kgCO2 per kilowatt-hour)" :>
                           FDiv(loc.combined[i]["CO2 emissions"],
                                loc.combined[i][EnergyCol]))
                       @@ loc.combined[i]]
       IN  loc' = Stepped(loc.combined,
                          DropCols(added, {EnergyCol, "Global cumulative",
                                           "Global emissions"}))
    /\ pc' = "clean_up"
    /\ UNCHANGED <<script, outdir, memo, nruns>>

\* Lines 293-299 without the replacement of the infinite values.
CleanUpKeepInf(df) == DropCols(df, {"CO2_peaked"})

\* co2_emissions.main, lines 293-299: drop CO2_peaked, replace +-inf by
\* null in every cell, drop the rows without a Country (the Country of
\* every row of the model is a name).
clean_up(df) ==
    LET dropped == DropCols(df, {"CO2_peaked"})
    IN  [i \in 1..Len(dropped) |->
            [f \in DOMAIN dropped[i] |->
                IF f \notin {"Country", "Year"} /\ IsInf(dropped[i][f])
                THEN NaN ELSE dropped[i][f]]]

Co2CleanUp ==
    /\ script = "co2_emissions" /\ pc = "clean_up"
    /\ loc' = Stepped(loc.combined, clean_up(loc.combined))
    /\ pc' = "to_csv"
    /\ UNCHANGED <<script, outdir, memo, nruns>>

\* co2_emissions.main, lines 301-311: the names of the grapher columns.
grapher_name(col) ==
    CASE col = "CO2 emissions" -> "Annual CO2 emissions"
      [] col = "Consumption emissions" -> "Annual consumption-based CO2 emissions"
      [] col = "Traded emissions" -> "CO2 emissions embedded in trade"
      [] col = "Share emissions traded" -> "Share of CO2 emissions embedded in trade"
      [] col = "Per capita emissions" -> "Per capita CO2 emissions"
      [] col = "Per capita consumption emissions"
            -> "Per capita consumption-based CO2 emissions"
      [] col = "Share of global emissions" -> "Share of global CO2 emissions"
      [] col = "Cumulative" -> "Cumulative CO2 emissions"
      [] col = "Share of global cumulative emissions"
            -> "Share of global cumulative CO2 emissions"
      [] OTHER -> col

Co2EmissionsCsv == "co2_emissions.csv"

\* co2_emissions.main, lines 301-317: rename and write
Co2ToCsv ==
    /\ script = "co2_emissions" /\ pc = "to_csv"
    /\ LET renamed == [i \in 1..Len(loc.combined) |->
                         LET r == loc.combined[i]
                         IN  [g \in {grapher_name(f) : f \in DOMAIN r} |->
                                 r[CHOOSE f \in DOMAIN r : grapher_name(f) = g]]]
       IN  /\ outdir' = Written(outdir, Co2EmissionsCsv, renamed)
           /\ loc' = Stepped(loc.combined, renamed)
    /\ pc' = "done"
    /\ UNCHANGED <<script, memo, nruns>>

InitChain ==
    /\ script = "co2_emissions" /\ pc = "get_continents"
    /\ \E f \in ChainFrames : loc = [combined |-> f]
    /\ outdir = NoFiles /\ memo = NoMemo /\ nruns = 0

NextChain ==
    \/ Co2Regions \/ Co2Growth \/ Co2Consumption \/ Co2PerCapita \/ Co2GlobalShare
    \/ Co2Peaked \/ Co2Cumulative \/ Co2PerGdp \/ Co2PerEnergy
    \/ Co2CleanUp \/ Co2ToCsv

SpecChain == InitChain /\ [][NextChain]_vars

ZeroOrNull(x) == IsNull(x) \/ x = Int2Num(0)

\* In every row of the step just taken, a zero or null denominator den left
\* a cell that is no number in each of the columns ratios.
NoQuotient(den, frame, ratios) ==
    \A i \in 1..Len(loc.combined) :
        ZeroOrNull(frame[i][den])
        => \A f \in ratios : ~IsNum(loc.combined[i][f])

\* C13: no cell of the table written by co2_emissions.main is +inf or
\* -inf. A ratio whose denominator is zero or null is no number when it is
\* computed (no step aborts on it), the clean-up turns every cell that is
\* no number into null, and a written row with "Annual CO2 emissions" 0
\* and a consumption value has a null share of emissions embedded in trade.
C13_NoInfiniteCell ==
    /\ Co2EmissionsCsv \in DOMAIN outdir =>
          \A i \in 1..Len(outdir[Co2EmissionsCsv]) :
              LET r == outdir[Co2EmissionsCsv][i]
              IN  /\ \A f \in DOMAIN r \ {"Country", "Year"} : ~IsInf(r[f])
                  /\ (/\ r["Annual CO2 emissions"] = Int2Num(0)
                      /\ ~IsNull(r["Annual consumption-based CO2 emissions"]))
                     => IsNull(r["Share of CO2 emissions embedded in trade"])
    /\ pc = "consumption" =>
          \A i \in 2..Len(loc.combined) :
              (/\ loc.combined[i - 1].Country = loc.combined[i].Country
               /\ loc.combined[i - 1]["CO2 emissions"] = Int2Num(0))
              => ~IsNum(loc.combined[i]["Annual CO2 growth (%)"])
    /\ pc = "per_capita" =>
          NoQuotient("CO2 emissions", loc.combined, {"Share emissions traded"})
    /\ pc = "global_share" =>
          NoQuotient("Population", loc.before,
                     {"Per capita emissions", "Per capita consumption emissions"})
    /\ pc = "co2_peaked" =>
          NoQuotient("Global emissions", loc.combined, {"Share of global emissions"})
    /\ pc = "co2_per_gdp" =>
          NoQuotient("Global cumulative", loc.combined,
                     {"Share of global cumulative emissions"})
    /\ pc = "co2_per_energy" =>
          NoQuotient("Total real GDP", loc.before,
                     {"CO2 per GDP (kg per $PPP)",
                      "Consumption-based CO2 per GDP (kg per $PPP)"})
    /\ pc = "clean_up" =>
          NoQuotient(EnergyCol, loc.before,
                     {"CO2 per unit energy (kgCO2 per kilowatt-hour)"})
    /\ pc = "to_csv" =>
          \A i \in 1..Len(loc.combined) :
              \A f \in DOMAIN loc.combined[i] \ {"Country", "Year"} :
                  ~IsNum(loc.before[i][f]) => IsNull(loc.combined[i][f])

\* A row with production 0 and consumption 150 was written: its share of
\* emissions embedded in trade, 150 / (0 x 100) = +inf, is null in the file.
C13_Witness ==
    /\ pc = "done" /\ Co2EmissionsCsv \in DOMAIN outdir
    /\ \E i \in 1..Len(outdir[Co2EmissionsCsv]) :
          LET r == outdir[Co2EmissionsCsv][i]
          IN  /\ r["Annual CO2 emissions"] = Int2Num(0)
              /\ r["Annual consumption-based CO2 emissions"] = Int2Num(150)
              /\ r["CO2 emissions embedded in trade"] = Int2Num(150)
              /\ IsNull(r["Share of CO2 emissions embedded in trade"])

----------------------------------------------------------------------------
(* One row per (Country, Year).                                            *)

\* The panel returned by main.load_and_merge_datasets has no key twice.
PanelKeysUnique ==
    (script = "main" /\ pc = "rename_columns") => ~HasDuplicate(loc.df.rows)

\* C14: every panel produced has exactly one row per (Country, Year): the
\* panel returned by main.load_and_merge_datasets, and the table written by
\* co2_emissions.main after the region aggregates and the regions_fill rows
\* were concatenated onto the country rows and the consumption series was
\* left-joined.
C14_OneRowPerKey ==
    /\ PanelKeysUnique
    /\ Co2EmissionsCsv \in DOMAIN outdir => ~HasDuplicate(outdir[Co2EmissionsCsv])

\* The file written holds the row of (Europe, 1990) computed by
\* get_continents and the row of (Europe, 1990) of regions_fill.csv.
C14_Witness ==
    /\ pc = "done" /\ Co2EmissionsCsv \in DOMAIN outdir
    /\ \E i, j \in 1..Len(outdir[Co2EmissionsCsv]) :
          LET r == outdir[Co2EmissionsCsv][i]
              q == outdir[Co2EmissionsCsv][j]
          IN  /\ i < j /\ SameKey(r, q, KeyCols) /\ r.Country = "Europe"
              /\ r["Annual CO2 emissions"] = Int2Num(100)
              /\ q["Annual CO2 emissions"] = Int2Num(50)

----------------------------------------------------------------------------
(* The order of the rows handed to the serializers.                        *)

\* Each row's (country, year) is at most the next row's.
SortedByCountryYear(rows) ==
    \A i \in 1..(Len(rows) - 1) :
        ~LexLess(KeyOf(rows[i + 1], <<"country", "year">>),
                 KeyOf(rows[i], <<"country", "year">>))

\* C15: the rows written by main.export and the table returned by
\* make_dataset.prepare_data are sorted by (country, year) ascending,
\* whatever the row order of the input tables.
C15_SortedByCountryYear ==
    /\ DataCsv \in DOMAIN outdir => SortedByCountryYear(outdir[DataCsv].rows)
    /\ (script = "make_dataset" /\ pc = "save") => SortedByCountryYear(loc.tb.rows)

\* A run of scripts.main whose total GHG table lists (World, 1990) before
\* (Europe, 1991) has written three rows: Europe, Testland, World.
C15_Witness ==
    /\ script = "main" /\ pc = "done"
    /\ Len(loc.src.ghg) = 2 /\ loc.src.ghg[1].Country = "World"
    /\ [i \in 1..Len(outdir[DataCsv].rows) |-> outdir[DataCsv].rows[i].country]
         = <<"Europe", "Testland", "World">>

----------------------------------------------------------------------------
(* Unexpected units.                                                       *)

\* A run whose CO2 variable declares a unit that get_co2_emissions does
\* not accept is aborted.
Co2UnitChecked == (script = "main" /\ ~UnitOk(loc.src.unit)) => pc = "aborted"

\* C18: when a source variable declares a unit outside the expected set,
\* the run of scripts.main aborts instead of producing a panel, for the CO2
\* variables and for the total GHG, CH4 and N2O variables alike.
C18_UnexpectedUnitAborts ==
    (script = "main" /\ (~UnitOk(loc.src.unit) \/ loc.src.ghg_unit # GhgUnit))
    => pc = "aborted"

\* A run whose total GHG variable declares "kilotonnes CO2e" has written
\* the panel, with the value 5 of that variable in it.
C18_Witness ==
    /\ script = "main" /\ pc = "done" /\ loc.src.ghg_unit = "kilotonnes CO2e"
    /\ outdir # loc.outdir0
    /\ \E i \in 1..Len(outdir[DataCsv].rows) :
          /\ "total_ghg" \in DOMAIN outdir[DataCsv].rows[i]
          /\ outdir[DataCsv].rows[i].total_ghg = Int2Num(5)

----------------------------------------------------------------------------
(* Missing population or GDP.                                              *)

\* The step just taken kept every row, and a row whose denominator den was
\* null has null cells in the columns ratios and all its other cells.
NullSideKept(den, ratios) ==
    /\ Len(loc.combined) = Len(loc.before)
    /\ \A i \in 1..Len(loc.before) :
          IsNull(loc.before[i][den]) =>
              /\ \A f \in ratios : IsNull(loc.combined[i][f])
              /\ \A f \in DOMAIN loc.before[i] \ {den} :
                    loc.combined[i][f] = loc.before[i][f]

\* co2_emissions.main keeps a row with a null Population or a null
\* "Total real GDP" and leaves its per-capita or per-GDP cells null.
Co2NullSideKept ==
    /\ (script = "co2_emissions" /\ pc = "global_share") =>
          NullSideKept("Population", {"Per capita emissions",
                                      "Per capita consumption emissions"})
    /\ (script = "co2_emissions" /\ pc = "co2_per_energy") =>
          NullSideKept("Total real GDP",
                       {"CO2 per GDP (kg per $PPP)",
                        "Consumption-based CO2 per GDP (kg per $PPP)"})

\* C19: a null population or GDP value of a (Country, Year) never aborts a
\* run; the per-capita or per-GDP cell is null and the row and its other
\* cells are produced, in co2_emissions.main and in
\* prepare_cait_datasets.combine_ghg_and_population.
C19_NullSideNeverAborts ==
    /\ Co2NullSideKept
    /\ script = "prepare_cait_datasets" => pc # "aborted"

\* combine_ghg_and_population was given a population table with a null
\* population for (TST, 1990) and a CAIT row of that key, and the run is
\* aborted.
C19_Witness ==
    /\ script = "prepare_cait_datasets" /\ pc = "aborted"
    /\ \E i \in 1..Len(loc.population) :
          loc.population[i].Year = 1990 /\ IsNull(loc.population[i].Population)
    /\ \E i \in 1..Len(loc.ghg_data) :
          loc.ghg_data[i].Year = 1990 /\ loc.ghg_data[i].Value = Int2Num(10)

----------------------------------------------------------------------------
(* The region aggregates of get_continents.                                *)

\* The rows of the frame given to get_continents whose country the
\* mapping puts in the region, for the year.
MemberRows(region, year) ==
    SelectSeq(loc.before,
              LAMBDA r : /\ r.Country \in DOMAIN continents_csv
                         /\ continents_csv[r.Country] = region
                         /\ r.Year = year)

\* get_continents returns one row per (Region, Year) that has a member
\* row; a cell of it is the sum of the values the members reported, or
\* null when nulled(sum) holds or no member reported a value.
RegionSums(nulled(_)) ==
    pc = "growth" =>
        /\ KeysOf(loc.continents)
             = {<<continents_csv[loc.before[i].Country], loc.before[i].Year>> :
                   i \in {j \in 1..Len(loc.before) :
                             loc.before[j].Country \in DOMAIN continents_csv}}
        /\ \A i \in 1..Len(loc.continents) :
              LET q == loc.continents[i]
              IN  /\ Len(RowsAt(loc.continents, <<q.Country, q.Year>>)) = 1
                  /\ \A f \in NumericCols :
                        LET reported == SelectSeq(MemberRows(q.Country, q.Year),
                                                  LAMBDA r : ~IsNull(r[f]))
                        IN  IF Len(reported) = 0 \/ nulled(SumSkipNa(reported, f))
                            THEN IsNull(q[f])
                            ELSE q[f] = SumSkipNa(reported, f)

\* The region rows hold the sums of the reported values, except that a sum
\* of 0 is null.
RegionSumsButZero == RegionSums(LAMBDA x : x = Int2Num(0))

\* C20: get_continents returns, for each (Region, Year) for which a country
\* of the mapping has a row, exactly one row named by the region; each of
\* its numeric cells is the sum of the non-null values of the member
\* countries' rows of that year, and is null exactly when no member
\* reported a value; countries absent from the mapping contribute nothing.
C20_RegionSums == RegionSums(LAMBDA x : FALSE)

\* Testland and the USSR both reported 0 for 1990, and the row of Europe
\* for 1990 has a null "CO2 emissions".
C20_Witness ==
    /\ pc = "growth"
    /\ \E i, j \in 1..Len(loc.before) :
          /\ loc.before[i].Country = "Testland" /\ loc.before[j].Country = "USSR"
          /\ loc.before[i].Year = 1990 /\ loc.before[j].Year = 1990
          /\ loc.before[i]["CO2 emissions"] = Int2Num(0)
          /\ loc.before[j]["CO2 emissions"] = Int2Num(0)
    /\ \E i \in 1..Len(loc.continents) :
          /\ loc.continents[i].Country = "Europe" /\ loc.continents[i].Year = 1990
          /\ IsNull(loc.continents[i]["CO2 emissions"])

----------------------------------------------------------------------------
(* The description and source cells of the codebooks.                      *)

\* A codebook cell that is null or the empty string.
IsGap(cell) == IsNull(cell) \/ cell = Str("")

\* A run whose metadata yield a null codebook cell (scripts.main) or no
\* title at all (make_dataset) aborts and writes nothing.
NullCellAborts ==
    /\ (script = "main" /\ (IsNull(loc.src.description) \/ IsNull(loc.src.source_name)))
          => (pc = "aborted" /\ outdir = loc.outdir0)
    /\ (script = "make_dataset" /\ pc # "prepare_data"
        /\ IsNull(loc.co2.title) /\ IsNull(loc.co2.title_public)
        /\ "co2" \in DOMAIN loc.tb[1])
          => (pc = "aborted" /\ outdir = loc.outdir0)

\* C21: no description or source cell of a written codebook is null or
\* empty: a column whose metadata yield a null or empty description, or no
\* source attribution at all, makes the run abort instead of producing a
\* codebook row with that gap.
C21_NoCodebookGap ==
    CodebookCsv \in DOMAIN outdir =>
        \A i \in 1..Len(outdir[CodebookCsv]) :
            /\ ~IsGap(outdir[CodebookCsv][i].description)
            /\ ~IsGap(outdir[CodebookCsv][i].source)

\* A run of make_dataset.main on a table whose co2 column has no origins is
\* done and the codebook file has an empty source cell in the row of co2.
C21_Witness ==
    /\ script = "make_dataset" /\ pc = "done"
    /\ loc.co2.origins = <<>>
    /\ \E i \in 1..Len(outdir[CodebookCsv]) :
          /\ outdir[CodebookCsv][i].column = "co2"
          /\ outdir[CodebookCsv][i].source = Str("")
          /\ ~IsGap(outdir[CodebookCsv][i].description)

----------------------------------------------------------------------------
(* The global cumulative of lines 264-270.                                 *)

\* The World total up to year y: the sum of "Global emissions" over the
\* years of the frame up to y, the value of each year taken once (line 251
\* merged it on Year, so all rows of a year hold the same value).
WorldCumulative(df, y) ==
    SumSkipNa(PickRows(df, {i \in 1..Len(df) :
                               /\ df[i].Year <= y
                               /\ \A j \in 1..(i - 1) : df[j].Year # df[i].Year}),
              "Global emissions")

\* "Global cumulative" is the World total up to the row's year in the rows
\* of a country that has a row for every year of the frame up to that
\* year, when the year has a global value.
GlobalCumulativeOfFullSeries ==
    pc = "co2_per_gdp" =>
        \A i \in 1..Len(loc.combined) :
            LET r == loc.combined[i]
                own == RowsUpTo(loc.before, r.Country, r.Year)
            IN  (/\ ~IsNull(r["Global emissions"])
                 /\ \A j \in 1..Len(loc.before) :
                       loc.before[j].Year <= r.Year =>
                           Len(SelectSeq(own, LAMBDA q : q.Year = loc.before[j].Year)) = 1)
                => r["Global cumulative"] = WorldCumulative(loc.before, r.Year)

\* C22: in every row (c, y) after lines 260-270 of co2_emissions.main the
\* global cumulative, the denominator of the share of global cumulative
\* emissions, is the World total up to y: the sum of the global emissions
\* of all years up to y that have a global value, whatever the first year
\* of c and the gaps of its series.
C22_GlobalCumulativeIsWorldTotal ==
    pc = "co2_per_gdp" =>
        \A i \in 1..Len(loc.combined) :
            loc.combined[i]["Global cumulative"]
              = WorldCumulative(loc.before, loc.combined[i].Year)

\* Testland has its first row in 1991, the World emitted 100 in 1990 and in
\* 1991, and the global cumulative of (Testland, 1991) is 100.
C22_Witness ==
    /\ pc = "co2_per_gdp"
    /\ \A i \in 1..Len(loc.before) : loc.before[i]["Global emissions"] = Int2Num(100)
    /\ {<<loc.before[i].Country, loc.before[i].Year>> : i \in 1..Len(loc.before)}
         = {<<"World", 1990>>, <<"Testland", 1991>>}
    /\ \E i \in 1..Len(loc.combined) :
          /\ loc.combined[i].Country = "Testland"
          /\ loc.combined[i]["Global cumulative"] = Int2Num(100)
          /\ WorldCumulative(loc.before, 1991) = Int2Num(200)

----------------------------------------------------------------------------
(* add_co2_peaked on series with null values.                              *)

\* The labels of the rows of country c name one peak row, whose value is
\* the maximum of the non-null values of c, with "False" before it and
\* "True" after it.
OnePeak(df, c) ==
    LET own == SelectSeq(df, LAMBDA r : r.Country = c)
        peaks == {i \in 1..Len(own) : own[i]["CO2_peaked"] = "Highest year"}
    IN  /\ Cardinality(peaks) = 1
        /\ \A p \in peaks :
              /\ ~IsNull(own[p]["CO2 emissions"])
              /\ \A i \in 1..Len(own) :
                    /\ ~FLess(own[p]["CO2 emissions"], own[i]["CO2 emissions"])
                    /\ own[i].Year < own[p].Year => own[i]["CO2_peaked"] = "False"
                    /\ own[i].Year > own[p].Year => own[i]["CO2_peaked"] = "True"

\* The countries of the frame with one row per Year and the CO2 emissions
\* of at least one row (all rows, when complete) non-null.
PeakCountries(df, complete) ==
    {c \in {df[i].Country : i \in 1..Len(df)} :
        LET own == SelectSeq(df, LAMBDA r : r.Country = c)
        IN  /\ \A i, j \in 1..Len(own) : own[i].Year = own[j].Year => i = j
            /\ \E i \in 1..Len(own) : ~IsNull(own[i]["CO2 emissions"])
            /\ complete => \A i \in 1..Len(own) : ~IsNull(own[i]["CO2 emissions"])}

\* add_co2_peaked labels one peak row, holding the maximum, in every
\* country whose CO2 emissions are all non-null.
PeakOfCompleteSeries ==
    (pc = "cumulative" /\ "before" \in DOMAIN loc) =>
        \A c \in PeakCountries(loc.before, TRUE) : OnePeak(loc.combined, c)

\* C23: for every Country with at least one non-null CO2 emissions value and
\* one row per Year, add_co2_peaked labels exactly one of its rows "Highest
\* year"; the CO2 emissions of that row are the maximum of the non-null CO2
\* emissions of the Country, also when other rows of the Country are null;
\* the rows of a smaller Year are labelled "False" and those of a larger
\* Year "True".
C23_OnePeakAtMaximum ==
    (pc = "cumulative" /\ "before" \in DOMAIN loc) =>
        \A c \in PeakCountries(loc.before, FALSE) : OnePeak(loc.combined, c)

\* The series 20, null, 10 of 2000..2002: the row of 2001, whose CO2
\* emissions are null, is labelled "Highest year".
C23_Witness ==
    /\ pc = "cumulative" /\ "before" \in DOMAIN loc
    /\ [i \in 1..Len(loc.before) |-> loc.before[i]["CO2 emissions"]]
         = <<Int2Num(20), NaN, Int2Num(10)>>
    /\ [i \in 1..Len(loc.before) |-> loc.before[i].Year] = <<2000, 2001, 2002>>
    /\ PeakedLabels = <<"False", "Highest year", "True">>

----------------------------------------------------------------------------
(* The order of the steps of co2_emissions.main and the columns they read. *)

\* The steps of lines 184-317, by the position of the script before each.
ChainOrder ==
    <<"growth", "consumption", "per_capita", "global_share", "co2_peaked",
      "cumulative", "co2_per_gdp", "co2_per_energy", "clean_up", "to_csv", "done">>

\* The columns the step at position p reads from the frame.
StepReads(p) ==
    CASE p = "growth" -> {"Country", "Year", "CO2 emissions"}
      [] p = "consumption" -> {"Country", "Year", "CO2 emissions"}
      [] p = "per_capita" -> {"CO2 emissions", "Consumption emissions", "Population"}
      [] p = "global_share" -> {"Year", "CO2 emissions"}
      [] p = "co2_peaked" -> {"Country", "Year", "CO2 emissions"}
      [] p = "cumulative" -> {"Country", "Year", "CO2 emissions", "Global emissions"}
      [] p = "co2_per_gdp" -> {"CO2 emissions", "Consumption emissions", "Total real GDP"}
      [] p = "co2_per_energy" -> {"CO2 emissions", EnergyCol, "Global cumulative",
                                  "Global emissions"}
      [] p = "clean_up" -> {"Country", "CO2_peaked"}
      [] OTHER -> {}

\* The columns the step at position p adds to the frame.
StepAdds(p) ==
    CASE p = "growth" -> {"Annual CO2 growth (%)", "Annual CO2 growth (abs)"}
      [] p = "consumption" -> {"Consumption emissions", "Traded emissions",
                               "Share emissions traded"}
      [] p = "per_capita" -> {"Per capita emissions", "Per capita consumption emissions"}
      [] p = "global_share" -> {"Global emissions", "Share of global emissions"}
      [] p = "co2_peaked" -> {"CO2_peaked"}
      [] p = "cumulative" -> {"Cumulative", "Global cumulative",
                              "Share of global cumulative emissions"}
      [] p = "co2_per_gdp" -> {"CO2 per GDP (kg per $PPP)",
                               "Consumption-based CO2 per GDP (kg per $PPP)"}
      [] p = "co2_per_energy" -> {"CO2 per unit energy (kgCO2 per kilowatt-hour)"}
      [] OTHER -> {}

\* The columns the step at position p drops from the frame.
StepDrops(p) ==
    CASE p = "per_capita" -> {"Population"}
      [] p = "co2_per_gdp" -> {"Total real GDP"}
      [] p = "co2_per_energy" -> {EnergyCol, "Global cumulative", "Global emissions"}
      [] p = "clean_up" -> {"CO2_peaked"}
      [] OTHER -> {}

\* The columns of the frame before the k-th step.
RECURSIVE ColumnsBefore(_)
ColumnsBefore(k) ==
    IF k = 1
    THEN {"Country", "Year", "CO2 emissions", "Population", "Total real GDP", EnergyCol}
    ELSE (ColumnsBefore(k - 1) \cup StepAdds(ChainOrder[k - 1]))
         \ StepDrops(ChainOrder[k - 1])

\* The frame of the precedence merge has neither Priority nor Source when
\* the global figures are added (line 170).
PriorityAndSourceDropped ==
    (script = "co2_emissions" /\ pc = "add_global_emissions") =>
        \A i \in 1..Len(loc.combined) :
            DOMAIN loc.combined[i] = {"Country", "Year", "CO2 emissions"}

\* C24: in co2_emissions.main every derived-metric step reads only columns
\* that exist at that point: growth, consumption and traded emissions, per
\* capita, share of global, peak label, cumulative sums with the share of
\* global cumulative, and the intensity ratios run in that order, and
\* Population, Total real GDP, Primary energy consumption, Global
\* emissions, Global cumulative and CO2_peaked are dropped after the last
\* step that reads them and are absent from the table written, as are
\* Priority and Source.
C24_StepsReadExistingColumns ==
    \A k \in 1..Len(ChainOrder) :
        pc = ChainOrder[k] =>
            /\ \A i \in 1..Len(loc.combined) :
                  /\ StepReads(pc) \subseteq DOMAIN loc.combined[i]
                  /\ pc # "done" => DOMAIN loc.combined[i] = ColumnsBefore(k)
            /\ pc = "done" =>
                  \A i \in 1..Len(outdir[Co2EmissionsCsv]) :
                      /\ DOMAIN outdir[Co2EmissionsCsv][i]
                           = {grapher_name(c) : c \in ColumnsBefore(k)}
                      /\ DOMAIN outdir[Co2EmissionsCsv][i]
                           \cap {"Population", "Total real GDP", EnergyCol,
                                 "Global emissions", "Global cumulative",
                                 "CO2_peaked", "Priority", "Source"} = {}

\* The table is written with the rows of a country and a region, and the
\* frame held Population, Total real GDP and the energy column at line 184.
C24_Witness ==
    /\ pc = "done"
    /\ {outdir[Co2EmissionsCsv][i].Country : i \in 1..Len(outdir[Co2EmissionsCsv])}
         = {"Testland", "Europe"}
    /\ \A i \in 1..Len(outdir[Co2EmissionsCsv]) :
          "Share of global cumulative CO2 emissions" \in DOMAIN outdir[Co2EmissionsCsv][i]

----------------------------------------------------------------------------
(* The annual growth of lines 184-191.                                     *)

\* C25: after lines 184-191 of co2_emissions.main the rows of every Country
\* are in ascending Year order; "Annual CO2 growth (%)" and "Annual CO2
\* growth (abs)" are null on the first row of every Country, and on every
\* other row whose CO2 emissions v and the CO2 emissions p of the row of
\* the same Country just before it are both non-null they are
\* (v - p) / p * 100 and v - p; the value of another Country is never p.
C25_GrowthPerCountry ==
    (script = "co2_emissions" /\ pc = "consumption" /\ "before" \in DOMAIN loc) =>
        \A i \in 1..Len(loc.combined) :
            LET r == loc.combined[i]
                earlier == {j \in 1..(i - 1) : loc.combined[j].Country = r.Country}
                later == {j \in (i + 1)..Len(loc.combined) :
                             loc.combined[j].Country = r.Country}
                v == r["CO2 emissions"]
            IN  /\ \A j \in later : loc.combined[j].Year >= r.Year
                /\ earlier = {} =>
                      /\ IsNull(r["Annual CO2 growth (%)"])
                      /\ IsNull(r["Annual CO2 growth (abs)"])
                /\ earlier # {} =>
                      LET p == loc.combined[CHOOSE j \in earlier :
                                               \A k \in earlier : k <= j]["CO2 emissions"]
                      IN  (~IsNull(v) /\ ~IsNull(p)) =>
                              /\ r["Annual CO2 growth (%)"]
                                   = FMul(FDiv(FSub(v, p), p), Int2Num(100))
                              /\ r["Annual CO2 growth (abs)"] = FSub(v, p)

\* Europe and Testland both emitted 100 in 1990 and Testland emitted 0 in
\* 1991: the growth of (Testland, 1990), the row after the rows of Europe,
\* is null, and that of (Testland, 1991) is -100 % and -100.
C25_Witness ==
    /\ script = "co2_emissions" /\ pc = "consumption" /\ "before" \in DOMAIN loc
    /\ Len(loc.combined) >= 3
    /\ loc.combined[1].Country = "Europe"
    /\ loc.combined[1]["CO2 emissions"] = Int2Num(100)
    /\ \E i \in 2..(Len(loc.combined) - 1) :
          /\ loc.combined[i - 1].Country = "Europe"
          /\ loc.combined[i].Country = "Testland" /\ loc.combined[i].Year = 1990
          /\ loc.combined[i]["CO2 emissions"] = Int2Num(100)
          /\ IsNull(loc.combined[i]["Annual CO2 growth (%)"])
          /\ loc.combined[i + 1].Country = "Testland" /\ loc.combined[i + 1].Year = 1991
          /\ loc.combined[i + 1]["CO2 emissions"] = Int2Num(0)
          /\ loc.combined[i + 1]["Annual CO2 growth (%)"] = FSub(Int2Num(0), Int2Num(100))
          /\ loc.combined[i + 1]["Annual CO2 growth (abs)"] = FSub(Int2Num(0), Int2Num(100))

----------------------------------------------------------------------------
(* prepare_cait_datasets.fetch_all_data_from_api.                          *)

\* The records of the API database and the records per request, at most.
MaxRecords == 9
MaxPerRequest == 4

\* Python's round(n / d) for n >= 0 and d >= 1: the nearest integer, a
\* half going to the even neighbour.
PythonRound(n, d) ==
    LET q == n \div d
        r == n % d
    IN  IF 2 * r < d THEN q
        ELSE IF 2 * r > d THEN q + 1
        ELSE IF q % 2 = 0 THEN q ELSE q + 1

\* The number of requests without the additional one.
RoundedRequests(total_records, api_records_per_request) ==
    PythonRound(total_records, api_records_per_request)

\* fetch_all_data_from_api, line 157
total_requests(total_records, api_records_per_request) ==
    PythonRound(total_records, api_records_per_request) + 1

\* The "data" of the API's answer to a request for a page: the records of
\* the database are served in consecutive pages of per_page records.
ApiPage(database, page, per_page) ==
    LET first == (page - 1) * per_page + 1
        last == IF page * per_page < Len(database) THEN page * per_page
                ELSE Len(database)
    IN  IF first > last THEN <<>> ELSE SubSeq(database, first, last)

\* fetch_all_data_from_api, lines 149-159: the first request returns the
\* number of records in its header.
FetchTotal ==
    /\ script = "prepare_cait_datasets" /\ pc = "fetch_all_data_from_api"
    /\ loc' = [total_records |-> Len(loc.database),
               total_requests |-> total_requests(Len(loc.database),
                                                 loc.api_records_per_request),
               page |-> 1, data_all |-> <<>>] @@ loc
    /\ pc' = "fetch_page"
    /\ UNCHANGED <<script, outdir, memo, nruns>>

\* fetch_all_data_from_api, lines 160-166: one turn of the loop over
\* range(1, total_requests + 1), which ends after the last page or at the
\* first empty page.
FetchPage ==
    /\ script = "prepare_cait_datasets" /\ pc = "fetch_page"
    /\ IF loc.page > loc.total_requests
       THEN pc' = "fetched" /\ loc' = loc
       ELSE LET new_data == ApiPage(loc.database, loc.page,
                                    loc.api_records_per_request)
            IN  IF Len(new_data) = 0
                THEN pc' = "fetched" /\ loc' = loc
                ELSE /\ pc' = "fetch_page"
                     /\ loc' = [loc EXCEPT !.data_all = @ \o new_data,
                                           !.page = @ + 1]
    /\ UNCHANGED <<script, outdir, memo, nruns>>

\* A call of fetch_all_data_from_api on a database of numbered records.
InitFetch ==
    /\ script = "prepare_cait_datasets" /\ pc = "fetch_all_data_from_api"
    /\ \E total \in 0..MaxRecords, per \in 1..MaxPerRequest :
          loc = [database |-> [i \in 1..total |-> i],
                 api_records_per_request |-> per]
    /\ outdir = NoFiles /\ memo = NoMemo /\ nruns = 0

NextFetch == FetchTotal \/ FetchPage

SpecFetch == InitFetch /\ [][NextFetch]_vars

\* The loop of fetch_all_data_from_api runs as long as it can.
SpecFetchFair == SpecFetch /\ WF_vars(NextFetch)

\* The pages requested so far are 1..page - 1, none of them empty, and the
\* records collected are those of these pages, in order.
FetchedSoFar ==
    pc = "fetch_page" =>
        /\ loc.page \in 1..(loc.total_requests + 1)
        /\ loc.data_all
             = SubSeq(loc.database, 1, Len(loc.data_all))
        /\ Len(loc.data_all)
             = IF (loc.page - 1) * loc.api_records_per_request < Len(loc.database)
               THEN (loc.page - 1) * loc.api_records_per_request
               ELSE Len(loc.database)

\* C26: fetch_all_data_from_api terminates and returns every record: for
\* any total_records >= 0 and api_records_per_request >= 1, with the API
\* serving consecutive pages until the records are exhausted, the pages 1
\* up to round(total_records / api_records_per_request) + 1, stopping at
\* the first empty page, cover all records, each once and in page order.
C26_FetchReturnsEveryRecord ==
    <>[](pc = "fetched" /\ loc.data_all = loc.database)

\* Five records in pages of two: round(2.5) is 2, three pages are requested
\* and the five records are returned.
C26_Witness ==
    /\ pc = "fetched"
    /\ Len(loc.database) = 5 /\ loc.api_records_per_request = 2
    /\ loc.total_requests = 3 /\ loc.page = 4
    /\ loc.data_all = <<1, 2, 3, 4, 5>>

----------------------------------------------------------------------------
(* prepare_cait_datasets.main over runs that share its temporary file.     *)

API_RECORDS_PER_REQUEST == 500

\* TEMP_API_DATA_FILE, in the output directory.
TempJson == "temp.json"

\* The files of GASES_AND_FILES for the gases of the model.
GasFile(gas) ==
    CASE gas = "CO2" -> "CO2 emissions by sector (CAIT, 2021).csv"
      [] gas = "CH4" -> "Methane emissions by sector (CAIT, 2021).csv"

\* One record of the Climate Watch API.
ApiRecord(sector, data_source, emissions) ==
    [iso_code3 |-> "TST", gas |-> "CO2", sector |-> sector,
     data_source |-> data_source, emissions |-> emissions]

\* The records of the API database at the time of a run: none, one CAIT
\* record, or records of two sources and two sectors.
ApiDatabases ==
    {<<>>,
     <<ApiRecord("Energy", "CAIT", <<[year |-> 1990, value |-> Int2Num(10)]>>)>>,
     <<ApiRecord("Transportation", "CAIT",
                 <<[year |-> 1990, value |-> Int2Num(30)],
                   [year |-> 1991, value |-> NaN]>>),
       ApiRecord("Energy", "PIK", <<[year |-> 1990, value |-> Int2Num(10)]>>)>>}

\* json.dump writes the list of records as a text, json.load reads the
\* list of records back from it.
json_dump(api_data) == [json |-> api_data]
json_load(file) == file.json

\* An isfile that never finds the file.
NeverAFile(dir, file) == FALSE

\* os.path.isfile
os_path_isfile(dir, file) == file \in DOMAIN dir

\* prepare_ghg_data, lines 225-253: the names of Climate Watch that the
\* script replaces (of the sectors, gases and codes of the model).
cw_replace(value) ==
    CASE value = "Transportation" -> "Transport"
      [] value = "WORLD" -> "OWID_WRL"
      [] OTHER -> value

\* prepare_ghg_data: one row per element of "emissions" of each record, in
\* the order of the records, with the columns renamed and the names
\* replaced; the rows of the data source CAIT are kept.
RECURSIVE prepare_ghg_data(_)
prepare_ghg_data(api_data) ==
    IF Len(api_data) = 0 THEN <<>>
    ELSE LET n == Len(api_data)
             rec == api_data[n]
             rows == [i \in 1..Len(rec.emissions) |->
                         [iso_3 |-> cw_replace(rec.iso_code3),
                          Year |-> rec.emissions[i].year,
                          Gas |-> cw_replace(rec.gas),
                          Sector |-> cw_replace(rec.sector),
                          Value |-> rec.emissions[i].value]]
         IN  prepare_ghg_data(SubSeq(api_data, 1, n - 1))
             \o (IF rec.data_source = "CAIT" THEN rows ELSE <<>>)

\* prepare_cait_datasets.main, lines 365-372: the data are loaded from the
\* temporary file when it exists, else the API is called (memo counts the
\* calls).
CaitStart ==
    /\ CanStart
    /\ IF os_path_isfile(outdir, TempJson)
       THEN /\ loc' = [api_data |-> json_load(outdir[TempJson]), outdir0 |-> outdir]
            /\ pc' = "get_population_dataset"
            /\ memo' = memo
       ELSE /\ \E database \in ApiDatabases :
                  loc' = [database |-> database,
                          api_records_per_request |-> API_RECORDS_PER_REQUEST,
                          outdir0 |-> outdir]
            /\ pc' = "fetch_all_data_from_api"
            /\ memo' = [memo EXCEPT !.calls = @ + 1]
    /\ script' = "prepare_cait_datasets"
    /\ nruns' = nruns + 1
    /\ UNCHANGED outdir

\* A request of fetch_all_data_from_api raises (lines 151, 161).
FetchFails ==
    /\ script = "prepare_cait_datasets"
    /\ pc \in {"fetch_all_data_from_api", "fetch_page"}
    /\ pc' = "aborted"
    /\ UNCHANGED <<script, loc, outdir, memo, nruns>>

\* prepare_cait_datasets.main, lines 373-375: the data fetched are written
\* to the temporary file (memo keeps the data of the first fetch).
CaitSaveTemp ==
    /\ script = "prepare_cait_datasets" /\ pc = "fetched"
    /\ outdir' = Written(outdir, TempJson, json_dump(loc.data_all))
    /\ loc' = [api_data |-> loc.data_all, outdir0 |-> loc.outdir0]
    /\ memo' = [memo EXCEPT !.fetches = @ + 1,
                            !.saved = IF memo.fetches = 0 THEN loc.data_all ELSE @]
    /\ pc' = "get_population_dataset"
    /\ UNCHANGED <<script, nruns>>

\* prepare_cait_datasets.main, lines 377-403: the population is loaded, the
\* data are prepared (api_data[0] raises on an empty list), combined with
\* the population, collected per gas and saved.
CaitProcess ==
    /\ script = "prepare_cait_datasets" /\ pc = "get_population_dataset"
    /\ \E population \in CaitPopulations :
          LET r == combine_ghg_and_population(prepare_ghg_data(loc.api_data),
                                              population)
          IN  IF Len(loc.api_data) > 0 /\ r.ok
              THEN /\ outdir' = Written(Written(outdir,
                                    GasFile("CO2"), gas_data(r.ghg_data, "CO2")),
                                    GasFile("CH4"), gas_data(r.ghg_data, "CH4"))
                   /\ pc' = "done"
              ELSE /\ outdir' = outdir
                   /\ pc' = "aborted"
    /\ UNCHANGED <<script, loc, memo, nruns>>

\* The output directory without the temporary file, no run under way.
InitCait ==
    /\ script = "none" /\ pc = "idle" /\ loc = Idle
    /\ outdir = NoFiles /\ nruns = 0
    /\ memo = [kind |-> "cait", calls |-> 0, fetches |-> 0, saved |-> <<>>]

NextCait ==
    \/ CaitStart \/ FetchTotal \/ FetchPage \/ FetchFails
    \/ CaitSaveTemp \/ CaitProcess

SpecCait == InitCait /\ [][NextCait]_vars

\* C27: prepare_cait_datasets.main calls the API only when temp.json does
\* not exist and writes the file right after a successful fetch, before
\* any processing; over a sequence of runs in which the file is not deleted
\* the API is fetched at most once, every later run processes the data the
\* first fetch saved, and a run that fails in a later step leaves the file
\* in place.
C27_FetchedAtMostOnce ==
    /\ memo.fetches <= 1
    /\ os_path_isfile(outdir, TempJson) =>
          /\ memo.fetches = 1
          /\ json_load(outdir[TempJson]) = memo.saved
    /\ (script = "prepare_cait_datasets"
        /\ pc \in {"fetch_all_data_from_api", "fetch_page", "fetched"}) =>
          /\ ~os_path_isfile(loc.outdir0, TempJson)
          /\ outdir = loc.outdir0
    /\ (script = "prepare_cait_datasets" /\ "api_data" \in DOMAIN loc) =>
          /\ os_path_isfile(outdir, TempJson)
          /\ loc.api_data = memo.saved

\* The third run: the first run's API call failed, the second fetched and
\* saved two records and then failed on the population, and this run
\* loaded the file and wrote the files of the gases.
C27_Witness ==
    /\ script = "prepare_cait_datasets" /\ pc = "done"
    /\ nruns = 3 /\ memo.calls = 2 /\ memo.fetches = 1
    /\ Len(memo.saved) = 2
    /\ os_path_isfile(loc.outdir0, TempJson)
    /\ GasFile("CO2") \notin DOMAIN loc.outdir0
    /\ Len(outdir[GasFile("CO2")]) = 1
    /\ outdir[GasFile("CO2")][1]["Transport"] = Int2Num(30)

----------------------------------------------------------------------------
(* sanity_checks.py and prepare_cait_datasets_sanity_checks.main.          *)

\* The rows of a dataset given to the checks of a single dataset, at most.
MaxDataRows == 2

MAX_YEAR_MAXIMUM_DELAY == 4

\* The datasets of the checks on a single dataset: rows of two countries
\* in the years around the current year minus the delay.
SingleDatasets ==
    SeqsUpTo({[Country |-> c, Year |-> y, Energy |-> Int2Num(1)] :
              c \in {"Testland", "World"}, y \in {2016, 2017, 2018}},
             MaxDataRows)

\* SanityChecksOnSingleDataset._get_year_ranges: dropna(how="all") drops
\* the rows whose cells are all null, then the minimum and the maximum
\* Year per country, sorted by country.
get_year_ranges(data) ==
    LET data_clean == SelectSeq(data, LAMBDA r : \E f \in DOMAIN r :
                                   f \in {"Country", "Year"} \/ ~IsNull(r[f]))
        firsts == PickRows(data_clean, {i \in 1..Len(data_clean) :
                     \A j \in 1..(i - 1) : data_clean[j].Country # data_clean[i].Country})
        sorted == SortValues(firsts, <<"Country">>)
        Years(c) == {data_clean[i].Year : i \in {j \in 1..Len(data_clean) :
                                                   data_clean[j].Country = c}}
    IN  [i \in 1..Len(sorted) |->
            [Country |-> sorted[i].Country,
             min |-> CHOOSE y \in Years(sorted[i].Country) :
                        \A z \in Years(sorted[i].Country) : y <= z,
             max |-> CHOOSE y \in Years(sorted[i].Country) :
                        \A z \in Years(sorted[i].Country) : y >= z]]

\* check_that_latest_year_is_not_too_old, lines 222-228
check_that_latest_year_is_not_too_old(data, current_year, max_year_maximum_delay) ==
    LET year_ranges == get_year_ranges(data)
        selected == SelectSeq(year_ranges,
                              LAMBDA r : r.max > current_year - max_year_maximum_delay)
    IN  [i \in 1..Len(selected) |->
            [Country |-> selected[i].Country, Value |-> selected[i].max]]

\* The check of the latest year, as apply_all_checks calls it.
SanityLatestYear ==
    /\ script = "sanity_checks" /\ pc = "check_that_latest_year_is_not_too_old"
    /\ loc' = [warnings |->
                  check_that_latest_year_is_not_too_old(
                      loc.data, loc.current_year, loc.max_year_maximum_delay)]
              @@ loc
    /\ pc' = "checked"
    /\ UNCHANGED <<script, outdir, memo, nruns>>

\* The countries the check of the latest year warns about.
WarnedCountries == {loc.warnings[i].Country : i \in 1..Len(loc.warnings)}

\* The latest Year of country c in the data.
LatestYear(c) ==
    CHOOSE y \in {loc.data[i].Year : i \in {j \in 1..Len(loc.data) :
                                              loc.data[j].Country = c}} :
        \A i \in 1..Len(loc.data) : loc.data[i].Country = c => loc.data[i].Year <= y

\* C28: check_that_latest_year_is_not_too_old returns a warning for exactly
\* the countries whose latest Year is older than allowed, that is below the
\* current year minus max_year_maximum_delay, and none for a country whose
\* latest Year is within max_year_maximum_delay years of the current year.
C28_WarnsWhenLatestYearTooOld ==
    (script = "sanity_checks" /\ pc = "checked") =>
        WarnedCountries
          = {c \in {loc.data[i].Country : i \in 1..Len(loc.data)} :
                LatestYear(c) < loc.current_year - loc.max_year_maximum_delay}

\* In 2021, with a delay of 4 years: Testland, whose latest year is 2016,
\* gets no warning, and World, whose latest year is 2018, gets one.
C28_Witness ==
    /\ script = "sanity_checks" /\ pc = "checked"
    /\ loc.current_year = 2021 /\ loc.max_year_maximum_delay = 4
    /\ loc.data = <<[Country |-> "World", Year |-> 2018, Energy |-> Int2Num(1)],
                    [Country |-> "Testland", Year |-> 2016, Energy |-> Int2Num(1)]>>
    /\ loc.warnings = <<[Country |-> "World", Value |-> 2018]>>


\* The plots a summary may show, at most.
MaxPlots == 2

\* NAME of prepare_cait_datasets_sanity_checks.py, for the entities the
\* model keeps.
NAME ==
    [country |-> "Country", year |-> "Year", energy |-> "Energy",
     lucf |-> "Land-use change and forestry"]

AbruptCheck == "check_that_values_did_not_change_abruptly_from_old_to_new_dataset"

\* The relevant error of a country and a variable whose old and new series
\* differ much: one value per pair, above ERROR_METRIC['min_relevant'].
HighError(country, variable) ==
    Int2Num((IF variable = NAME.energy THEN 30 ELSE 50)
            + (IF country = "Testland" THEN 0 ELSE 10))

\* The relevant error of two series that differ little.
LowError == Int2Num(5)

\* The old and the new dataset of a comparison, by their countries and
\* their data columns: a country or the land-use column may be missing in
\* either of them.
ComparedDatasets ==
    [countries : {{"Testland", "World"}, {"Testland"}, {"World"}},
     columns : {{NAME.energy, NAME.lucf}, {NAME.energy}}]

\* x > y of two floats: False when either is NaN.
FGreater(x, y) == ~IsNull(x) /\ ~IsNull(y) /\ Sign(FSub(x, y)) > 0

\* A dataframe of warnings: its columns, and its rows with NaN in the
\* columns a row has no value for.
WarningRow(check_name, country, variable, mape) ==
    [check_name |-> check_name, Country |-> country, Variable |-> variable,
     mape |-> mape]

\* get_value_deviations_from_old_to_new_datasets: one row per country and
\* per variable of both datasets, variable by variable, with the error of
\* the two series (NaN for a country that is in one dataset only).
\* `high` is the set of pairs whose series differ much.
get_value_deviations(data_old, data_new, high) ==
    LET both == data_old.columns \cap data_new.columns
        variables == SelectSeq(<<NAME.energy, NAME.lucf>>, LAMBDA v : v \in both)
        countries == SelectSeq(<<"Testland", "World">>,
                        LAMBDA c : c \in data_old.countries \cup data_new.countries)
        n == Len(countries)
        Error(c, v) ==
            IF c \notin data_old.countries \cap data_new.countries THEN NaN
            ELSE IF <<c, v>> \in high THEN HighError(c, v) ELSE LowError
    IN  [i \in 1..(Len(variables) * n) |->
            LET v == variables[((i - 1) \div n) + 1]
                c == countries[((i - 1) % n) + 1]
            IN  WarningRow("", Str(c), Str(v), Error(c, v))]

RECURSIVE SortByErrorDescending(_)
\* sort_values(error_name, ascending=False) of rows with distinct errors.
SortByErrorDescending(rows) ==
    IF Len(rows) = 0 THEN <<>>
    ELSE LET top == CHOOSE i \in 1..Len(rows) :
                       \A j \in 1..Len(rows) : ~FGreater(rows[j].mape, rows[i].mape)
         IN  <<rows[top]>> \o SortByErrorDescending(
                 PickRows(rows, (1..Len(rows)) \ {top}))

\* check_that_values_did_not_change_abruptly_from_old_to_new_dataset
check_that_values_did_not_change_abruptly(errors, error_min_relevant) ==
    [columns |-> {"Country", "Variable", "mape"},
     rows |-> SortByErrorDescending(
                 SelectSeq(errors, LAMBDA r : FGreater(r.mape, Int2Num(error_min_relevant))))]

\* check_that_all_countries_in_<a>_dataset_are_in_<b>_dataset
check_that_all_countries_are_in(data_a, data_b) ==
    LET missing == SelectSeq(<<"Testland", "World">>,
                      LAMBDA c : c \in data_a.countries \ data_b.countries)
    IN  [columns |-> {"Country"},
         rows |-> [i \in 1..Len(missing) |-> WarningRow("", Str(missing[i]), NaN, NaN)]]

\* check_that_all_columns_in_<a>_dataset_are_in_<b>_dataset
check_that_all_columns_are_in(data_a, data_b) ==
    LET missing_columns == SelectSeq(<<NAME.energy, NAME.lucf>>,
                              LAMBDA v : v \in data_a.columns \ data_b.columns)
    IN  [columns |-> {"Variable"},
         rows |-> [i \in 1..Len(missing_columns) |->
                      WarningRow("", NaN, Str(missing_columns[i]), NaN)]]

\* The checks of SanityChecksComparingTwoDatasets in the order of
\* _gather_all_check_names (dir() sorts the names), with their results.
ComparingChecks(data_old, data_new, errors) ==
    <<[check_name |-> "check_that_all_columns_in_new_dataset_are_in_old_dataset",
       warnings |-> check_that_all_columns_are_in(data_new, data_old)],
      [check_name |-> "check_that_all_columns_in_old_dataset_are_in_new_dataset",
       warnings |-> check_that_all_columns_are_in(data_old, data_new)],
      [check_name |-> "check_that_all_countries_in_new_dataset_are_in_old_dataset",
       warnings |-> check_that_all_countries_are_in(data_new, data_old)],
      [check_name |-> "check_that_all_countries_in_old_dataset_are_in_new_dataset",
       warnings |-> check_that_all_countries_are_in(data_old, data_new)],
      [check_name |-> AbruptCheck,
       warnings |-> check_that_values_did_not_change_abruptly(errors, 20)]>>

RECURSIVE apply_all_checks(_)
\* Check.apply_all_checks: the warnings of the checks that have any, one
\* after the other, each row with the name of its check.
apply_all_checks(checks) ==
    IF Len(checks) = 0 THEN [columns |-> {"check_name"}, rows |-> <<>>]
    ELSE LET all_warnings == apply_all_checks(SubSeq(checks, 1, Len(checks) - 1))
             check == checks[Len(checks)]
             warnings == check.warnings
         IN  IF Len(warnings.rows) > 0
             THEN [columns |-> all_warnings.columns \cup warnings.columns
                                  \cup {"check_name"},
                   rows |-> all_warnings.rows \o
                            [i \in 1..Len(warnings.rows) |->
                                [warnings.rows[i] EXCEPT !.check_name = check.check_name]]]
             ELSE all_warnings

\* main, line 614: the names of NAME whose key has no 'lucf' in it.
allowed_variables == {NAME[col] : col \in {c \in DOMAIN NAME : c # "lucf"}}

\* main, lines 615-619: the rows of the abrupt-change check whose Variable
\* is allowed.
ignore_lucf_filter(warnings) ==
    [warnings EXCEPT !.rows =
        SelectSeq(warnings.rows,
                  LAMBDA r : /\ r.check_name = AbruptCheck
                             /\ ~IsNull(r.Variable)
                             /\ r.Variable.s \in allowed_variables)]

\* summarize_figures_to_inspect_in_html, lines 602-619: the warning line
\* and one figure per warning with an error.
summarize_figures_to_inspect_in_html(warnings, max_num_plots) ==
    LET warnings_to_plot == SelectSeq(warnings.rows, LAMBDA r : ~IsNull(r.mape))
    IN  [warning_line |-> Len(warnings_to_plot) > max_num_plots,
         figures |-> [i \in 1..Len(warnings_to_plot) |->
                         [country |-> warnings_to_plot[i].Country.s,
                          variable |-> warnings_to_plot[i].Variable.s,
                          mape |-> warnings_to_plot[i].mape]]]

\* summarize_warnings_in_html: per check, the number of its warnings.
summarize_warnings_in_html(checks, all_warnings) ==
    [i \in 1..Len(checks) |->
        [check_name |-> checks[i].check_name,
         issues |-> Len(SelectSeq(all_warnings.rows,
                       LAMBDA r : r.check_name = checks[i].check_name))]]

\* main, line 610
SanityApplyAllChecks ==
    /\ script = "sanity_checks" /\ pc = "apply_all_checks"
    /\ LET checks == ComparingChecks(loc.data_old, loc.data_new, loc.errors)
           all_warnings == apply_all_checks(checks)
       IN  loc' = [all_warnings |-> all_warnings,
                   warnings_comparing_datasets |-> all_warnings] @@ loc
    /\ pc' = "ignore_lucf"
    /\ UNCHANGED <<script, outdir, memo, nruns>>

\* main, lines 613-619: a frame without the column Variable raises KeyError.
SanityIgnoreLucf ==
    /\ script = "sanity_checks" /\ pc = "ignore_lucf"
    /\ IF ~loc.ignore_lucf
       THEN pc' = "summarize" /\ loc' = loc
       ELSE IF "Variable" \notin loc.warnings_comparing_datasets.columns
       THEN pc' = "KeyError" /\ loc' = loc
       ELSE /\ pc' = "summarize"
            /\ loc' = [loc EXCEPT !.warnings_comparing_datasets =
                          ignore_lucf_filter(loc.warnings_comparing_datasets)]
    /\ UNCHANGED <<script, outdir, memo, nruns>>

\* main, lines 620-624: a frame without the column of the error metric
\* raises KeyError in summarize_figures_to_inspect_in_html.
SanitySummarize ==
    /\ script = "sanity_checks" /\ pc = "summarize"
    /\ LET warnings == loc.warnings_comparing_datasets
           checks == ComparingChecks(loc.data_old, loc.data_new, loc.errors)
       IN  IF "mape" \notin warnings.columns
           THEN pc' = "KeyError" /\ loc' = loc
           ELSE /\ pc' = "saved"
                /\ loc' = [summary |-> summarize_warnings_in_html(checks, warnings),
                           figures |-> summarize_figures_to_inspect_in_html(
                                           warnings, loc.max_num_plots)] @@ loc
    /\ UNCHANGED <<script, outdir, memo, nruns>>

InitSanity ==
    /\ script = "sanity_checks"
    /\ \/ /\ pc = "check_that_latest_year_is_not_too_old"
          /\ \E data \in SingleDatasets, current_year \in {2021, 2022} :
                loc = [data |-> data, current_year |-> current_year,
                       max_year_maximum_delay |-> MAX_YEAR_MAXIMUM_DELAY]
       \/ /\ pc = "apply_all_checks"
          /\ \E data_old \in ComparedDatasets, data_new \in ComparedDatasets,
                high \in SUBSET ({"Testland", "World"} \X {NAME.energy, NAME.lucf}),
                ignore_lucf \in BOOLEAN, max_num_plots \in 1..MaxPlots :
                loc = [data_old |-> data_old, data_new |-> data_new,
                       errors |-> get_value_deviations(data_old, data_new, high),
                       ignore_lucf |-> ignore_lucf,
                       max_num_plots |-> max_num_plots]
    /\ outdir = NoFiles /\ memo = NoMemo /\ nruns = 0

NextSanity ==
    \/ SanityLatestYear
    \/ SanityApplyAllChecks \/ SanityIgnoreLucf \/ SanitySummarize

SpecSanity == InitSanity /\ [][NextSanity]_vars

\* What lines 613-619 keep: only rows of the abrupt-change check, none of a
\* variable related to LUCF.
IgnoreLucfKeepsAbruptOnly ==
    (script = "sanity_checks" /\ pc \in {"summarize", "saved"} /\ loc.ignore_lucf) =>
        \A i \in 1..Len(loc.warnings_comparing_datasets.rows) :
            /\ loc.warnings_comparing_datasets.rows[i].check_name = AbruptCheck
            /\ loc.warnings_comparing_datasets.rows[i].Variable # Str(NAME.lucf)

\* True of the warning of an abrupt change of a variable related to LUCF.
IsLucfWarning(r) ==
    r.check_name = AbruptCheck /\ r.Variable = Str(NAME.lucf)

\* C29: with ignore_lucf set, main removes from the comparison warnings
\* only the abrupt-change warnings of a variable related to LUCF; the
\* warnings of every other comparison check stay as apply_all_checks
\* returned them.
C29_IgnoreLucfRemovesOnlyLucf ==
    (script = "sanity_checks" /\ pc = "summarize" /\ loc.ignore_lucf) =>
        loc.warnings_comparing_datasets.rows
          = SelectSeq(loc.all_warnings.rows, LAMBDA r : ~IsLucfWarning(r))

\* With the flag, the warning of a column of the old dataset that the new
\* one lacks is removed together with the warnings of the other checks: of
\* two warnings only the abrupt change of Energy is left.
C29_Witness ==
    /\ script = "sanity_checks" /\ pc = "summarize" /\ loc.ignore_lucf
    /\ \E i \in 1..Len(loc.all_warnings.rows) :
          /\ loc.all_warnings.rows[i].check_name
               = "check_that_all_columns_in_old_dataset_are_in_new_dataset"
          /\ loc.all_warnings.rows[i].Variable = Str(NAME.lucf)
    /\ \E i \in 1..Len(loc.all_warnings.rows) :
          loc.all_warnings.rows[i].check_name
            = "check_that_all_countries_in_new_dataset_are_in_old_dataset"
    /\ loc.warnings_comparing_datasets.rows
         = <<WarningRow(AbruptCheck, Str("Testland"), Str(NAME.energy),
                        HighError("Testland", NAME.energy))>>

\* What summarize_figures_to_inspect_in_html returns: a figure for every
\* warning with an error, and the warning line when these are more than
\* max_num_plots.
FigurePerWarning ==
    (script = "sanity_checks" /\ pc = "saved") =>
        LET n == Cardinality({i \in 1..Len(loc.warnings_comparing_datasets.rows) :
                     ~IsNull(loc.warnings_comparing_datasets.rows[i].mape)})
        IN  /\ Len(loc.figures.figures) = n
            /\ loc.figures.warning_line <=> n > loc.max_num_plots

\* C30: summarize_figures_to_inspect_in_html puts at most max_num_plots
\* figures in its result: with more warnings with an error than that, the
\* warning line and max_num_plots figures; otherwise a figure per warning
\* and no warning line.
C30_AtMostMaxNumPlotsFigures ==
    (script = "sanity_checks" /\ pc = "saved") =>
        LET n == Cardinality({i \in 1..Len(loc.warnings_comparing_datasets.rows) :
                     ~IsNull(loc.warnings_comparing_datasets.rows[i].mape)})
        IN  /\ Len(loc.figures.figures) <= loc.max_num_plots
            /\ n > loc.max_num_plots =>
                  loc.figures.warning_line
                  /\ Len(loc.figures.figures) = loc.max_num_plots
            /\ n <= loc.max_num_plots =>
                  ~loc.figures.warning_line /\ Len(loc.figures.figures) = n

\* Three abrupt changes and max_num_plots = 2: the warning line is there,
\* and so are three figures.
C30_Witness ==
    /\ script = "sanity_checks" /\ pc = "saved"
    /\ loc.max_num_plots = 2
    /\ loc.figures.warning_line
    /\ Len(loc.figures.figures) = 3

=============================================================================
